---- MODULE Spec2Model ----
(***************************************************************************)
(* A model of the distributed-agent runtime of rust-wasm-lunatic-nats:     *)
(*   - AgentState (src/src/agent.rs): the two-tier state store, one        *)
(*     ephemeral map in front of a MemoryBackend (src/src/memory.rs);      *)
(*   - retry_llm_operation / safe_llm_operation (src/src/llm_client.rs);   *)
(*   - AgentProcess (src/src/supervisor.rs): the mailbox-driven actor, its *)
(*     message router and its LLM task executor.                           *)
(*                                                                         *)
(* Strings are sequences of tokens (<<"a", ":", "k">> is "a:k"), so that   *)
(* format!("{}:{}", id, key), starts_with and strip_prefix are computed    *)
(* and not assumed.  Maps (HashMap) are functions on a finite domain.      *)
(***************************************************************************)
EXTENDS Integers, Sequences, FiniteSets, TLC

VARIABLES
    \* ---- AgentState (agent.rs:48-53) and its backend (memory.rs) ----
    agentId,        \* AgentState.id
    ephemeral,      \* AgentState.ephemeral_state
    backend,        \* AgentState.persistent_backend: [kind, storage, disk]
    nats,           \* AgentState.nats is Some(..)
    published,      \* what NatsConnection::publish was given, in order
    asResult,       \* history: what the last AgentState operation did and returned
    lastMsg,        \* history: the last message handle_message was given
    \* ---- history variables of the AgentState claims ----
    claimed,        \* per key: value of the last store not followed by delete/clear
    rt,             \* progress of a saveAll / clear / loadAll round trip
    \* ---- AgentProcess (supervisor.rs:37-45), its mailbox and environment ----
    procState,      \* AgentProcess.state
    procClaimed,    \* history: last-writer-wins oracle of procState
    message_count,  \* AgentProcess.message_count
    llm_operations, \* AgentProcess.llm_operations: operation_id -> status
    config,         \* AgentProcess.config
    mailbox,        \* messages delivered by the host, not yet handled
    sentLog,        \* history: per sender, the payloads it sent, in order
    env,            \* the process environment: which API keys are set
    uuids,          \* number of uuid::Uuid::new_v4() values drawn so far
    clock,          \* chrono::Utc::now().timestamp_millis()
    procStatus,     \* "ready" | "panicked"
    lastHandled,    \* history: what the last handled message was and did
    handled,        \* history: number of items handled
    llmTasks,       \* history: number of llm_task messages handled
    \* ---- retry_llm_operation (llm_client.rs:364-398) ----
    retry,          \* the loop's locals and its history
    \* ---- AgentSupervisor (supervisor.rs:988-1014) ----
    sup,            \* the supervisor: its status, its Arg and its child's args
    \* ---- one InMemoryBackend and the holders of its clones (memory.rs:16-70) ----
    arc,            \* InMemoryBackend.storage: the map and the owner of its lock
    holders,        \* per holder of a clone: its call and how far the call got
    seqMap,         \* history: the map of the calls applied one after another
    \* ---- a second AgentState over a clone of the first one's backend ----
    peer            \* its id, its ephemeral_state, and the keys it stored

storeVars == <<agentId, ephemeral, backend, nats, published, asResult,
               lastMsg, claimed, rt>>
procVars  == <<procState, procClaimed, message_count, llm_operations, config,
               mailbox, sentLog, env, uuids, clock, procStatus, lastHandled,
               handled, llmTasks>>
retryVars == <<retry>>
supVars   == <<sup>>
sharedVars == <<arc, holders, seqMap, peer>>
vars      == <<storeVars, procVars, retryVars, supVars, sharedVars>>

----------------------------------------------------------------------------
(* Bounds of the model *)

\* messages given to AgentState::handle_message in one behaviour
MaxStoreMessages == 2
\* largest max_retries given to retry_llm_operation
MaxRetriesArg == 4
\* messages each sender may send to the agent process
MaxSendsPerSender == 2
\* latest clock reading (milliseconds)
MaxClock == 2
\* items handled by the agent process in one behaviour
MaxMessages == 2

----------------------------------------------------------------------------
(* Strings and maps *)

\* a and b concatenated
Cat(a, b) == a \o b

\* str::starts_with
StartsWith(s, p) == Len(s) >= Len(p) /\ SubSeq(s, 1, Len(p)) = p

\* str::strip_prefix, for s that starts with p
StripPrefix(s, p) == SubSeq(s, Len(p) + 1, Len(s))

EmptyMap == [x \in {} |-> 0]

\* HashMap::insert
MapPut(m, k, v) == [x \in (DOMAIN m) \cup {k} |-> IF x = k THEN v ELSE m[x]]

\* HashMap::remove
MapDel(m, k) == [x \in (DOMAIN m) \ {k} |-> m[x]]

\* HashMap::get, None as NotFound
NotFound == "<none>"
MapGet(m, k) == IF k \in DOMAIN m THEN m[k] ELSE NotFound

\* the entries of m outside the key set ks
MapWithout(m, ks) == [x \in (DOMAIN m) \ ks |-> m[x]]

----------------------------------------------------------------------------
(* The universe the inputs are drawn from *)

AgentIds == {<<"a">>, <<"a", ":", "b">>}
Keys     == {<<"k">>, <<"b", ":", "k">>}
Values   == {"v1", "v2"}
Senders  == {<<"s1">>, <<"s2">>}

----------------------------------------------------------------------------
(* MemoryBackend (memory.rs).  A backend is [kind, storage, disk]: storage   *)
(* is InMemoryBackend.storage (FileBackend.in_memory for a file backend);   *)
(* disk is the directory of the file backend, [files, torn]: files maps the *)
(* key of each readable "<key>.json" to its content, torn holds the keys of *)
(* the files that File::create truncated and write_all did not fill.  Every *)
(* operation yields the set of outcomes [ok, b] it can end in: a disk       *)
(* operation of the file backend may fail, the in-memory map never does.    *)
(* AgentState holds a Box<dyn MemoryBackend>: the kind "Fallible" is any    *)
(* other implementation of the trait, a map of which every method may       *)
(* return Err and leave the map as it was.                                  *)

EmptyDisk == [files |-> EmptyMap, torn |-> {}]

\* InMemoryBackend::new, FileBackend::new on an empty directory
NewBackend(kind) == [kind |-> kind, storage |-> EmptyMap, disk |-> EmptyDisk]

\* the keys that have a file
OnDisk(disk) == (DOMAIN disk.files) \cup disk.torn

\* the directory without the files of the keys ks
DiskWithout(disk, ks) ==
    [files |-> MapWithout(disk.files, ks), torn |-> disk.torn \ ks]

\* FileBackend::save_to_disk: the outcomes [ok, disk]
SaveToDisk(disk, key, value) ==
    { [ok |-> TRUE,  disk |-> [files |-> MapPut(disk.files, key, value),
                               torn |-> disk.torn \ {key}]],
      \* File::create failed
      [ok |-> FALSE, disk |-> disk],
      \* write_all failed
      [ok |-> FALSE, disk |-> [files |-> MapDel(disk.files, key),
                               torn |-> disk.torn \cup {key}]] }

\* FileBackend::remove_from_disk: the outcomes [ok, disk]
RemoveFromDisk(disk, key) ==
    IF key \in OnDisk(disk)
    THEN { [ok |-> TRUE,  disk |-> DiskWithout(disk, {key})],
           \* remove_file failed
           [ok |-> FALSE, disk |-> disk] }
    ELSE { [ok |-> TRUE,  disk |-> disk] }

\* a method of the trait on a Fallible backend: done, or Err
FallibleOutcomes(b, done) == { [ok |-> TRUE, b |-> done], [ok |-> FALSE, b |-> b] }

\* MemoryBackend::store
BackendStore(b, key, value) ==
    LET mem == MapPut(b.storage, key, value) IN
    IF b.kind = "InMemory"
    THEN { [ok |-> TRUE, b |-> [b EXCEPT !.storage = mem]] }
    ELSE IF b.kind = "Fallible"
    THEN FallibleOutcomes(b, [b EXCEPT !.storage = mem])
    ELSE { [ok |-> o.ok, b |-> [b EXCEPT !.storage = mem, !.disk = o.disk]]
           : o \in SaveToDisk(b.disk, key, value) }

\* MemoryBackend::retrieve: Ok(value) or Ok(None)
BackendRetrieve(b, key) == MapGet(b.storage, key)

\* MemoryBackend::retrieve: the outcomes [ok, value].  InMemoryBackend and
\* FileBackend read their map and return Ok.
BackendRetrieveOutcomes(b, key) ==
    { [ok |-> TRUE, value |-> BackendRetrieve(b, key)] }
    \cup IF b.kind = "Fallible" THEN { [ok |-> FALSE, value |-> NotFound] }
         ELSE {}

\* MemoryBackend::delete
BackendDelete(b, key) ==
    LET mem == MapDel(b.storage, key) IN
    IF b.kind = "Fallible"
    THEN FallibleOutcomes(b, [b EXCEPT !.storage = mem])
    ELSE IF b.kind = "InMemory" \/ key \notin DOMAIN b.storage
    THEN { [ok |-> TRUE, b |-> [b EXCEPT !.storage = mem]] }
    ELSE { [ok |-> o.ok, b |-> [b EXCEPT !.storage = mem, !.disk = o.disk]]
           : o \in RemoveFromDisk(b.disk, key) }

\* MemoryBackend::list_keys(Some(prefix))
BackendListKeys(b, prefix) == {k \in DOMAIN b.storage : StartsWith(k, prefix)}

\* MemoryBackend::clear.  The file backend removes the file of every key of
\* the map, in the map's iteration order, and empties the map only after
\* every removal succeeded.
BackendClear(b) ==
    IF b.kind = "InMemory"
    THEN { [ok |-> TRUE, b |-> [b EXCEPT !.storage = EmptyMap]] }
    ELSE IF b.kind = "Fallible"
    THEN FallibleOutcomes(b, [b EXCEPT !.storage = EmptyMap])
    ELSE LET files == (DOMAIN b.storage) \cap OnDisk(b.disk) IN
         { [ok |-> TRUE,
            b  |-> [b EXCEPT !.storage = EmptyMap,
                             !.disk = DiskWithout(b.disk, files)]] }
         \cup
         { [ok |-> FALSE, b |-> [b EXCEPT !.disk = DiskWithout(b.disk, gone)]]
           : gone \in {g \in SUBSET files : g # files} }

----------------------------------------------------------------------------
(* AgentState (agent.rs) *)

\* format!("{}:{}", self.id.0, key)
PersistentKey(id, key) == Cat(Cat(id, <<":">>), key)

\* A faulty prefix without the separator (format!("{}", self.id.0))
NamespacePrefixBare(id) == id

\* format!("{}:", self.id.0)
NamespacePrefix(id) == Cat(id, <<":">>)

\* what Get{key} finds: the ephemeral value, else the persistent one, else
\* nothing (handle_state_action, the Get arm)
GetFinds(eph, b, id, key) ==
    IF key \in DOMAIN eph THEN eph[key]
    ELSE BackendRetrieve(b, PersistentKey(id, key))

Result(ok) == IF ok THEN "Ok" ELSE "Err"

\* the history of a round trip is lost by any operation that is not its next step
NoRoundTrip == [phase |-> "none", saved |-> EmptyMap, how |-> "none"]

\* A faulty Store that takes the ephemeral write back when the backend fails
StoreActionUndone(key, value) ==
    \E o \in BackendStore(backend, PersistentKey(agentId, key), value) :
        /\ ephemeral' = IF o.ok THEN MapPut(ephemeral, key, value) ELSE ephemeral
        /\ backend' = o.b
        /\ asResult' = [op |-> "Store", key |-> key, found |-> NotFound,
                        res |-> Result(o.ok)]

\* StateAction::Store { key, value }
StoreAction(key, value) ==
    \E o \in BackendStore(backend, PersistentKey(agentId, key), value) :
        /\ ephemeral' = MapPut(ephemeral, key, value)
        /\ backend' = o.b
        /\ asResult' = [op |-> "Store", key |-> key, found |-> NotFound,
                        res |-> Result(o.ok)]

\* A faulty Get that asks the backend first and the ephemeral view after it
GetActionBackendFirst(key) ==
    \E o \in BackendRetrieveOutcomes(backend, PersistentKey(agentId, key)) :
        /\ ephemeral' = IF o.ok /\ o.value # NotFound
                        THEN MapPut(ephemeral, key, o.value)
                        ELSE ephemeral
        /\ backend' = backend
        /\ asResult' = [op |-> "Get", key |-> key,
                        found |-> IF o.ok /\ o.value # NotFound THEN o.value
                                  ELSE MapGet(ephemeral, key),
                        res |-> Result(o.ok)]

\* A faulty Get that takes the value out of the ephemeral view
\* (ephemeral_state.remove(&key) for ephemeral_state.get(&key))
GetActionEvicting(key) ==
    /\ ephemeral' = MapDel(ephemeral, key)
    /\ backend' = backend
    /\ asResult' = [op |-> "Get", key |-> key, found |-> MapGet(ephemeral, key),
                    res |-> "Ok"]

\* StateAction::Get { key }: the ephemeral value if there is one; else
\* retrieve(..).await?, whose value, if any, is cached
GetAction(key) ==
    IF key \in DOMAIN ephemeral
    THEN /\ ephemeral' = ephemeral
         /\ backend' = backend
         /\ asResult' = [op |-> "Get", key |-> key, found |-> ephemeral[key],
                         res |-> "Ok"]
    ELSE \E o \in BackendRetrieveOutcomes(backend, PersistentKey(agentId, key)) :
             /\ ephemeral' = IF o.ok /\ o.value # NotFound
                             THEN MapPut(ephemeral, key, o.value)
                             ELSE ephemeral
             /\ backend' = backend
             /\ asResult' = [op |-> "Get", key |-> key, found |-> o.value,
                             res |-> Result(o.ok)]

\* A faulty Delete that leaves the persistent entry
DeleteActionEphemeralOnly(key) ==
    /\ ephemeral' = MapDel(ephemeral, key)
    /\ backend' = backend
    /\ asResult' = [op |-> "Delete", key |-> key, found |-> NotFound,
                    res |-> "Ok"]

\* StateAction::Delete { key }
DeleteAction(key) ==
    \E o \in BackendDelete(backend, PersistentKey(agentId, key)) :
        /\ ephemeral' = MapDel(ephemeral, key)
        /\ backend' = o.b
        /\ asResult' = [op |-> "Delete", key |-> key, found |-> NotFound,
                        res |-> Result(o.ok)]

\* A faulty Clear that leaves the backend as it is
ClearActionEphemeralOnly ==
    /\ ephemeral' = EmptyMap
    /\ backend' = backend
    /\ asResult' = [op |-> "Clear", key |-> <<>>, found |-> NotFound,
                    res |-> "Ok"]

\* StateAction::Clear
ClearAction ==
    \E o \in BackendClear(backend) :
        /\ ephemeral' = EmptyMap
        /\ backend' = o.b
        /\ asResult' = [op |-> "Clear", key |-> <<>>, found |-> NotFound,
                        res |-> Result(o.ok)]

\* StateAction::List
ListAction ==
    /\ ephemeral' = ephemeral
    /\ backend' = backend
    /\ asResult' = [op |-> "List", key |-> <<>>, found |-> NotFound, res |-> "Ok"]

\* the state actions a caller can construct
StateActions ==
    [type : {"Store"}, key : Keys, value : Values]
    \cup [type : {"Get", "Delete"}, key : Keys, value : {NotFound}]
    \cup [type : {"Clear", "List"}, key : {<<>>}, value : {NotFound}]

\* AgentState::handle_state_action, on the store alone
ApplyStateAction(action) ==
    CASE action.type = "Store"  -> StoreAction(action.key, action.value)
      [] action.type = "Get"    -> GetAction(action.key)
      [] action.type = "Delete" -> DeleteAction(action.key)
      [] action.type = "Clear"  -> ClearAction
      [] action.type = "List"   -> ListAction

\* The last-writer-wins oracle after a state action: a store sets the key, a
\* delete unsets it, a clear unsets every key.
ClaimedAfter(cl, action) ==
    CASE action.type = "Store"  -> MapPut(cl, action.key, action.value)
      [] action.type = "Delete" -> MapPut(cl, action.key, NotFound)
      [] action.type = "Clear"  -> [k \in DOMAIN cl |-> NotFound]
      [] OTHER                  -> cl

\* AgentState::handle_state_action called directly
HandleStateAction(action) ==
    /\ ApplyStateAction(action)
    /\ claimed' = ClaimedAfter(claimed, action)
    /\ rt' = IF action.type = "Clear" /\ rt.phase = "saved" /\ asResult'.res = "Ok"
             THEN [rt EXCEPT !.phase = "cleared", !.how = "ClearAction"]
             ELSE IF action.type = "List" THEN rt ELSE NoRoundTrip
    /\ UNCHANGED <<agentId, nats, published, lastMsg>>

\* AgentState::load_persistent_state: every persistent key under the
\* agent's prefix is stripped of it and inserted with its value
LoadedFrom(eph, b, id) ==
    LET prefix == NamespacePrefix(id)
        keys   == BackendListKeys(b, prefix)
        locals == {StripPrefix(pk, prefix) : pk \in keys}
    IN  [k \in (DOMAIN eph) \cup locals |->
            IF k \in locals
            THEN BackendRetrieve(b, CHOOSE pk \in keys : StripPrefix(pk, prefix) = k)
            ELSE eph[k]]

\* AgentState::save_persistent_state: the outcomes [ok, b].  The entries are
\* stored in the map's iteration order; the first store that fails ends the
\* loop, after the entries in `done` were stored.
SaveOutcomes(eph, b, id) ==
    LET StoreAll(ks) ==
            [b EXCEPT
               !.storage = [pk \in (DOMAIN b.storage) \cup
                                   {PersistentKey(id, k) : k \in ks} |->
                              IF \E k \in ks : PersistentKey(id, k) = pk
                              THEN eph[CHOOSE k \in ks : PersistentKey(id, k) = pk]
                              ELSE b.storage[pk]],
               !.disk = IF b.kind # "File" THEN b.disk
                        ELSE [files |->
                                [pk \in (DOMAIN b.disk.files) \cup
                                        {PersistentKey(id, k) : k \in ks} |->
                                   IF \E k \in ks : PersistentKey(id, k) = pk
                                   THEN eph[CHOOSE k \in ks :
                                                PersistentKey(id, k) = pk]
                                   ELSE b.disk.files[pk]],
                              torn |-> b.disk.torn \
                                       {PersistentKey(id, k) : k \in ks}]]
    IN  { [ok |-> TRUE, b |-> StoreAll(DOMAIN eph)] }
        \cup
        { [ok |-> FALSE, b |-> o.b] :
            o \in UNION { {x \in BackendStore(StoreAll(done),
                                              PersistentKey(id, f), eph[f]) : ~x.ok}
                          : <<done, f>> \in
                            {<<d, g>> \in (SUBSET DOMAIN eph) \X (DOMAIN eph) :
                                g \notin d} } }

\* load_persistent_state after the keys `done` were inserted
LoadedOnly(eph, b, id, done) ==
    LET prefix == NamespacePrefix(id)
        locals == {StripPrefix(pk, prefix) : pk \in done}
    IN  [k \in (DOMAIN eph) \cup locals |->
            IF k \in locals
            THEN BackendRetrieve(b, CHOOSE pk \in done : StripPrefix(pk, prefix) = k)
            ELSE eph[k]]

\* A faulty load that skips the keys whose retrieve failed
\* (if let Ok(Some(value)) = ..retrieve(&key).await)
LoadOutcomesSkipping(eph, b, id) ==
    LET keys == BackendListKeys(b, NamespacePrefix(id)) IN
    { [ok |-> TRUE, failed |-> NotFound, eph |-> LoadedFrom(eph, b, id)] }
    \cup IF b.kind = "Fallible"
         THEN { [ok |-> FALSE, failed |-> "list_keys", eph |-> eph] }
              \cup { [ok |-> TRUE, failed |-> "retrieve",
                      eph |-> LoadedOnly(eph, b, id, done)]
                     : done \in {d \in SUBSET keys : d # keys} }
         ELSE {}

\* AgentState::load_persistent_state: the outcomes [ok, failed, eph].
\* list_keys(..).await? returns its error before anything is inserted;
\* retrieve(..).await? returns its error after the keys `done` were
\* inserted, in the order list_keys gave them.  InMemoryBackend and
\* FileBackend answer both calls from their map and return Ok.
LoadOutcomes(eph, b, id) ==
    LET keys == BackendListKeys(b, NamespacePrefix(id)) IN
    { [ok |-> TRUE, failed |-> NotFound, eph |-> LoadedFrom(eph, b, id)] }
    \cup IF b.kind = "Fallible"
         THEN { [ok |-> FALSE, failed |-> "list_keys", eph |-> eph] }
              \cup { [ok |-> FALSE, failed |-> "retrieve",
                      eph |-> LoadedOnly(eph, b, id, done)]
                     : done \in {d \in SUBSET keys : d # keys} }
         ELSE {}

\* load_persistent_state called directly; `found` records the backend call
\* that returned Err, if any
LoadAll ==
    \E o \in LoadOutcomes(ephemeral, backend, agentId) :
        /\ ephemeral' = o.eph
        /\ asResult' = [op |-> "LoadAll", key |-> <<>>, found |-> o.failed,
                        res |-> Result(o.ok)]
        /\ rt' = IF rt.phase = "cleared" /\ o.ok
                 THEN [rt EXCEPT !.phase = "loaded"]
                 ELSE NoRoundTrip
        /\ UNCHANGED <<agentId, backend, nats, published, lastMsg, claimed>>

\* save_persistent_state called directly
SaveAll ==
    \E o \in SaveOutcomes(ephemeral, backend, agentId) :
        /\ backend' = o.b
        /\ asResult' = [op |-> "SaveAll", key |-> <<>>, found |-> NotFound,
                        res |-> Result(o.ok)]
        /\ rt' = IF o.ok THEN [phase |-> "saved", saved |-> ephemeral, how |-> "none"]
                 ELSE NoRoundTrip
        /\ UNCHANGED <<agentId, ephemeral, nats, published, lastMsg, claimed>>

\* agent_state.ephemeral_state.clear(): the public field emptied by the
\* owner of the AgentState, as test_agent_state_persistence does
ClearEphemeral ==
    /\ ephemeral' = EmptyMap
    /\ asResult' = [op |-> "ClearEphemeral", key |-> <<>>, found |-> NotFound,
                    res |-> "Ok"]
    /\ rt' = IF rt.phase = "saved"
             THEN [rt EXCEPT !.phase = "cleared", !.how = "ClearEphemeral"]
             ELSE NoRoundTrip
    /\ UNCHANGED <<agentId, backend, nats, published, lastMsg, claimed>>

----------------------------------------------------------------------------
(* AgentState::handle_message (agent.rs:159-219) *)

\* an agent id that is not the receiving agent's
OtherId == <<"other">>

\* the one sender of the messages given to handle_message
StoreSender == <<"s1">>

\* payloads that do not deserialize as a StateAction: an optional "type"
\* ("none" when absent) and an optional "data"
NoAction == [type |-> "none", key |-> <<>>, value |-> NotFound]

AppPayloads ==
    [kind : {"app"}, type : {"none", "ping", "shutdown"}, data : {NotFound},
     action : {NoAction}]
    \cup [kind : {"app"}, type : {"data_update"}, data : {NotFound, "v1"},
          action : {NoAction}]

\* payloads that serde_json::from_value::<StateAction> accepts
StateActionPayloads ==
    [kind : {"state_action"}, type : {"none"}, data : {NotFound},
     action : StateActions]

StoreMessages ==
    [from : {StoreSender}, to : AgentIds \cup {OtherId},
     payload : AppPayloads \cup StateActionPayloads]

\* format!("last_message_from_{}", message.from.0)
LastMessageKey(from) == Cat(<<"last_message_from_">>, from)

ReceivedDataKey == <<"received_data">>

\* format!("agent.{}", message.to.0)
Subject(to) == Cat(<<"agent.">>, to)

\* AgentState::process_application_message
ProcessApplicationMessage(message) ==
    LET eph1 == MapPut(ephemeral, LastMessageKey(message.from), message.payload)
        type == message.payload.type
    IN  CASE type = "data_update" ->
               /\ ephemeral' = IF message.payload.data # NotFound
                               THEN MapPut(eph1, ReceivedDataKey, message.payload.data)
                               ELSE eph1
               /\ backend' = backend
               /\ asResult' = [op |-> "Application", key |-> <<>>,
                               found |-> NotFound, res |-> "Ok"]
          [] type = "shutdown" ->
               \E o \in SaveOutcomes(eph1, backend, agentId) :
                   /\ ephemeral' = eph1
                   /\ backend' = o.b
                   /\ asResult' = [op |-> "Shutdown", key |-> <<>>,
                                   found |-> NotFound, res |-> "Err"]
          [] OTHER ->
               /\ ephemeral' = eph1
               /\ backend' = backend
               /\ asResult' = [op |-> "Application", key |-> <<>>,
                               found |-> NotFound, res |-> "Ok"]

\* AgentState::handle_message
HandleMessage(message) ==
    /\ IF message.payload.kind = "state_action"
       THEN /\ ApplyStateAction(message.payload.action)
            /\ claimed' = ClaimedAfter(claimed, message.payload.action)
            /\ published' = published
       ELSE IF nats /\ message.to # agentId
       THEN /\ \E ok \in BOOLEAN :
                  /\ published' = IF ok
                                  THEN Append(published,
                                              [subject |-> Subject(message.to),
                                               data |-> message])
                                  ELSE published
                  /\ asResult' = [op |-> "Forward", key |-> <<>>,
                                  found |-> NotFound, res |-> Result(ok)]
            /\ UNCHANGED <<ephemeral, backend, claimed>>
       ELSE /\ ProcessApplicationMessage(message)
            /\ UNCHANGED <<published, claimed>>
    /\ lastMsg' = [to |-> message.to, kind |-> message.payload.kind,
                   changed |-> (ephemeral' # ephemeral \/ backend' # backend),
                   seq |-> lastMsg.seq + 1]
    /\ rt' = NoRoundTrip
    /\ UNCHANGED <<agentId, nats>>

----------------------------------------------------------------------------
(* The state store on its own *)

\* AgentState::new(id, backend), with_nats
InitStore ==
    /\ agentId \in AgentIds
    /\ ephemeral = EmptyMap
    /\ backend \in {NewBackend("InMemory"), NewBackend("File")}
    /\ nats \in BOOLEAN
    /\ published = <<>>
    /\ asResult = [op |-> "new", key |-> <<>>, found |-> NotFound, res |-> "Ok"]
    /\ lastMsg = [to |-> agentId, kind |-> "none", changed |-> FALSE, seq |-> 0]
    /\ claimed = [k \in Keys |-> NotFound]
    /\ rt = NoRoundTrip

----------------------------------------------------------------------------
(* Error (lib.rs) and retry_llm_operation, safe_llm_operation (llm_client.rs) *)

ErrorKinds == {"Nats", "Serialization", "Io", "Custom", "LLMProvider",
               "LLMTimeout", "LLMRateLimit", "LLMResponseFormat",
               "WorkflowValidation"}

\* Error::is_retryable
IsRetryable(e) == e \in {"LLMTimeout", "LLMRateLimit", "Nats"}

\* Error::retry_delay_ms
RetryDelayMs(e) ==
    CASE e = "LLMTimeout"   -> 1000
      [] e = "LLMRateLimit" -> 5000
      [] e = "Nats"         -> 500
      [] OTHER              -> 0

\* the max_retries safe_llm_operation passes
SafeMaxRetries == 3

\* Error::Custom("No attempts made"), the initial last_error
NoAttemptsMade == "Custom: No attempts made"

\* what one call of operation() can return
Outcomes == {"Ok"} \cup ErrorKinds

RetryIdle ==
    [pc |-> "idle", caller |-> "none", max_retries |-> 0, attempt |-> 0,
     calls |-> 0, last_error |-> NoAttemptsMade, result |-> "none",
     outcomes |-> <<>>, delays |-> <<>>, slept |-> <<>>, nats_feature |-> TRUE]

\* the two builds: with the feature "nats" (tokio::time::sleep) and without
RetryBuilds == {RetryIdle, [RetryIdle EXCEPT !.nats_feature = FALSE]}

\* A faulty range that leaves out the last attempt (0..max_retries)
InRangeExclusive(attempt, max_retries) == attempt < max_retries

\* attempt is in 0..=max_retries
InRange(attempt, max_retries) == attempt <= max_retries

\* A faulty guard that retries whatever the error is
RetryGuardAnyError(attempt, max_retries, error) == attempt < max_retries

\* the guard of the retrying match arm
RetryGuard(attempt, max_retries, error) ==
    attempt < max_retries /\ IsRetryable(error)

\* retry_llm_operation(operation, max_retries) is entered
RetryCall(max_retries) ==
    /\ retry.pc = "idle"
    /\ retry' = [RetryIdle EXCEPT !.pc = "loop", !.caller = "retry_llm_operation",
                                  !.max_retries = max_retries,
                                  !.nats_feature = retry.nats_feature]
    /\ UNCHANGED <<storeVars, procVars, supVars, sharedVars>>

\* A faulty safe_llm_operation that asks for two retries more
SafeCallMoreRetries ==
    /\ retry.pc = "idle"
    /\ retry' = [RetryIdle EXCEPT !.pc = "loop", !.caller = "safe_llm_operation",
                                  !.max_retries = SafeMaxRetries + 2,
                                  !.nats_feature = retry.nats_feature]
    /\ UNCHANGED <<storeVars, procVars, supVars, sharedVars>>

\* safe_llm_operation(name, agent_id, operation) is entered
SafeCall ==
    /\ retry.pc = "idle"
    /\ retry' = [RetryIdle EXCEPT !.pc = "loop", !.caller = "safe_llm_operation",
                                  !.max_retries = SafeMaxRetries,
                                  !.nats_feature = retry.nats_feature]
    /\ UNCHANGED <<storeVars, procVars, supVars, sharedVars>>

\* A faulty loop that returns last_error, the error of the attempt before,
\* for the error of the attempt that ended it
RetryStepStaleError(outcome) ==
    /\ retry.pc = "loop"
    /\ IF InRange(retry.attempt, retry.max_retries)
       THEN LET r == [retry EXCEPT !.calls = @ + 1,
                                   !.outcomes = Append(@, outcome)]
            IN  retry' =
                  IF outcome = "Ok"
                  THEN [r EXCEPT !.pc = "done", !.result = "Ok"]
                  ELSE IF RetryGuard(retry.attempt, retry.max_retries, outcome)
                  THEN [r EXCEPT !.delays = Append(@, RetryDelayMs(outcome)),
                                 !.slept = IF retry.nats_feature
                                           THEN Append(@, RetryDelayMs(outcome))
                                           ELSE @,
                                 !.last_error = outcome,
                                 !.attempt = @ + 1]
                  ELSE [r EXCEPT !.pc = "done", !.result = retry.last_error]
       ELSE retry' = [retry EXCEPT !.pc = "done", !.result = retry.last_error]
    /\ UNCHANGED <<storeVars, procVars, supVars, sharedVars>>

\* One step of the for loop.  While attempt is in the range, operation() is
\* awaited and matched on; once the range is run through, the function
\* returns Err(last_error).
RetryStep(outcome) ==
    /\ retry.pc = "loop"
    /\ IF InRange(retry.attempt, retry.max_retries)
       THEN LET r == [retry EXCEPT !.calls = @ + 1,
                                   !.outcomes = Append(@, outcome)]
            IN  retry' =
                  IF outcome = "Ok"
                  THEN [r EXCEPT !.pc = "done", !.result = "Ok"]
                  ELSE IF RetryGuard(retry.attempt, retry.max_retries, outcome)
                  THEN [r EXCEPT !.delays = Append(@, RetryDelayMs(outcome)),
                                 !.slept = IF retry.nats_feature
                                           THEN Append(@, RetryDelayMs(outcome))
                                           ELSE @,
                                 !.last_error = outcome,
                                 !.attempt = @ + 1]
                  ELSE [r EXCEPT !.pc = "done", !.result = outcome]
       ELSE retry' = [retry EXCEPT !.pc = "done", !.result = retry.last_error]
    /\ UNCHANGED <<storeVars, procVars, supVars, sharedVars>>

\* the caller takes the result; the next call starts from scratch
RetryReturn ==
    /\ retry.pc = "done"
    /\ retry' = [RetryIdle EXCEPT !.nats_feature = retry.nats_feature]
    /\ UNCHANGED <<storeVars, procVars, supVars, sharedVars>>

NextRetry ==
    \/ \E m \in 0..MaxRetriesArg : RetryCall(m)
    \/ SafeCall
    \/ \E o \in Outcomes : RetryStep(o)
    \/ RetryReturn

----------------------------------------------------------------------------
(* AgentProcess (supervisor.rs): payloads *)

\* A payload is a JSON object.  `has` is the set of the fields it carries;
\* a field outside `has` is absent, whatever the record holds for it.  The
\* fields read with as_str() are strings here.
\*   data:   [array, items]: a JSON array of items, or one scalar; an item is
\*           the "content" string of a source, [ascii, wide]: `ascii`
\*           one-byte characters followed by `wide` two-byte characters
\*   target: [url, task_id]
NoData   == [array |-> FALSE, items |-> <<>>]
NoTarget == [url |-> "", task_id |-> ""]

Payload(has, pri, mtype, kind, seq, data, text, updates, tid, target) ==
    [has |-> has, priority |-> pri, message_type |-> mtype,
     llm_task |-> kind, seq |-> seq, data |-> data,
     task_description |-> text, prompt |-> text,
     updates |-> [object |-> TRUE, pairs |-> updates],
     transfer_id |-> tid, target |-> target]

Has(payload, field) == field \in payload.has

\* the "content" strings of the items
ShortText  == [ascii |-> 5,    wide |-> 0]
LongAscii  == [ascii |-> 1001, wide |-> 0]
LongWide   == [ascii |-> 0,    wide |-> 600]
LongShifted == [ascii |-> 1,   wide |-> 600]

DataChoices ==
    { [array |-> FALSE, items |-> <<>>],
      [array |-> TRUE,  items |-> <<>>],
      [array |-> TRUE,  items |-> <<ShortText, LongAscii>>],
      [array |-> TRUE,  items |-> <<LongWide>>],
      [array |-> TRUE,  items |-> <<ShortText, LongShifted>>] }

\* {"seq": n} with an optional priority: no message_type, no llm_task
DefaultPayloads ==
    { Payload(IF pr = "" THEN {"seq"} ELSE {"seq", "priority"}, pr, "", "", n,
              NoData, "", EmptyMap, "", NoTarget)
      : <<pr, n>> \in {"", "high", "bogus"} \X {1, 2} }

\* {"llm_task": kind, ...} with and without the field the kind requires
LlmPayloads ==
    { Payload({"llm_task"} \cup extra, "", "", kind, 0,
              NoData, "tell me", EmptyMap, "", NoTarget)
      : <<kind, extra>> \in
          ({"plan_workflow"} \X {{}, {"task_description"}})
          \cup ({"reason"} \X {{}, {"prompt"}})
          \cup ({"summarize", "translate"} \X {{}}) }
    \cup
    { Payload({"llm_task", "data"}, "", "", "summarize", 0,
              d, "", EmptyMap, "", NoTarget) : d \in DataChoices }
    \cup
    { Payload({"llm_task", "task_description"}, "", "", "plan_workflow", 0,
              NoData, "another task", EmptyMap, "", NoTarget) }

\* {"message_type": t, ...}
TypedPayloads ==
    { Payload({"message_type"} \cup extra, "", "state_update", "", 0,
              NoData, "", [k \in {<<"k">>} |-> "v1"], "", NoTarget)
      : extra \in {{}, {"updates"}} }
    \cup
    { Payload({"message_type"}, "", "coordination", "", 0,
              NoData, "", EmptyMap, "", NoTarget) }
    \cup
    { Payload({"message_type"} \cup extra, "", "data_transfer", "", 0,
              [array |-> FALSE, items |-> <<>>], "", EmptyMap, "t1", NoTarget)
      : extra \in {{}, {"data"}, {"data", "transfer_id"}} }
    \cup
    { Payload({"message_type"} \cup extra, "", "scraping_task", "", 0,
              NoData, "", EmptyMap, "", [url |-> u, task_id |-> "job"])
      : <<extra, u>> \in {<<{}, "">>, <<{"target"}, "https://x">>,
                          <<{"target"}, "ftp://x">>} }

ProcPayloads == DefaultPayloads \cup LlmPayloads \cup TypedPayloads

\* the id every agent process of the model is given
ProcId == <<"agent">>

----------------------------------------------------------------------------
(* AgentProcess: the LLM task executor *)

\* the byte at which prepare_data_for_llm cuts a content
TruncateLimit == 1000

\* str::len, in bytes
ByteLen(text) == text.ascii + 2 * text.wide

\* str::is_char_boundary(i), for i <= len
IsCharBoundary(text, i) ==
    \/ i <= text.ascii
    \/ (i - text.ascii) % 2 = 0

\* prepare_data_for_llm panics: &text_content[..1000] of a content longer
\* than 1000 bytes whose byte 1000 is inside a character
PrepareDataPanics(data) ==
    /\ data.array
    /\ \E i \in 1..Len(data.items) :
          /\ ByteLen(data.items[i]) > TruncateLimit
          /\ ~IsCharBoundary(data.items[i], TruncateLimit)

\* the texts the executor stores, the marker first
FallbackSummary(data_count) ==
    <<"[FALLBACK]", " Enhanced summary: Analyzed ", ToString(data_count),
      " data items. Advanced insights: ...">>
LocalOpenAiResponse ==
    <<"[FALLBACK]", " Distributed agent system analysis: ...">>
BrowserBaseResponse ==
    <<"[BROWSERBASE-OPENAI]", " Based on the distributed web scraping data analysis: ...">>
ApiFailedSummary(data_count) ==
    <<"[API-FAILED-FALLBACK]", " Professional Summary Analysis: ... Analyzed ",
      ToString(data_count), " data points ...">>
FallbackReasoning(prompt) ==
    <<"[ENHANCED-FALLBACK]", " Deep reasoning analysis for prompt: '", prompt,
      "' | Strategic recommendation: ...">>
RealReasoning(prompt) ==
    <<"[REAL-LLM-READY]", " Advanced reasoning analysis for: '", prompt,
      "' | Context-aware strategic insight: ...">>

Step(step_id, agent_type, action, inputs, outputs) ==
    [step_id |-> step_id, agent_type |-> agent_type, action |-> action,
     inputs |-> inputs, outputs |-> outputs]

\* A faulty fallback plan without its last step
FallbackWorkflowThreeSteps ==
    << Step("1", "data_collector", "collect_data",
            <<"source_urls", "scraping_config">>, <<"raw_data", "metadata">>),
       Step("2", "processor", "process_data",
            <<"raw_data", "processing_rules">>,
            <<"processed_data", "quality_metrics">>),
       Step("3", "summarizer", "generate_summary",
            <<"processed_data", "summary_template">>,
            <<"final_summary", "key_insights">>) >>

\* the plan handle_workflow_planning_task falls back to
FallbackWorkflow ==
    << Step("1", "data_collector", "collect_data",
            <<"source_urls", "scraping_config">>, <<"raw_data", "metadata">>),
       Step("2", "processor", "process_data",
            <<"raw_data", "processing_rules">>,
            <<"processed_data", "quality_metrics">>),
       Step("3", "summarizer", "generate_summary",
            <<"processed_data", "summary_template">>,
            <<"final_summary", "key_insights">>),
       Step("4", "coordinator", "validate_results",
            <<"final_summary", "quality_metrics">>,
            <<"validated_output", "completion_report">>) >>

\* the plan try_real_llm_workflow_planning answers with
IntelligentWorkflow ==
    << Step("analysis_1", "data_collector", "intelligent_data_extraction",
            <<"source_urls", "extraction_patterns", "quality_thresholds">>,
            <<"structured_data", "confidence_scores", "metadata">>),
       Step("processing_2", "ml_processor", "semantic_processing",
            <<"structured_data", "domain_ontology", "context_embeddings">>,
            <<"enriched_data", "semantic_annotations", "relationship_graph">>),
       Step("synthesis_3", "llm_summarizer", "contextual_synthesis",
            <<"enriched_data", "user_intent", "output_format">>,
            <<"comprehensive_summary", "actionable_insights",
              "follow_up_questions">>),
       Step("validation_4", "qa_coordinator", "multi_dimensional_validation",
            <<"comprehensive_summary", "quality_criteria",
              "fact_checking_sources">>,
            <<"validated_output", "quality_report",
              "improvement_suggestions">>) >>

\* send_openai_request: [ok, content].  Without a BrowserBase key the
\* response is made up locally; with one, execute_browserbase_request
\* answers with its fixed text.
SendOpenAiRequest(e) ==
    IF ~e.browserbase
    THEN [ok |-> TRUE, panicked |-> FALSE, content |-> LocalOpenAiResponse]
    ELSE [ok |-> TRUE, panicked |-> FALSE, content |-> BrowserBaseResponse]

\* make_real_openai_request: [ok, panicked, content]
MakeRealOpenAiRequest(e, data) ==
    IF PrepareDataPanics(data)
    THEN [ok |-> FALSE, panicked |-> TRUE, content |-> <<>>]
    ELSE SendOpenAiRequest(e)

\* data.as_array().map(|a| a.len()).unwrap_or(1)
DataCount(data) == IF data.array THEN Len(data.items) ELSE 1

\* try_real_llm_summarization: [ok, panicked, content]
TryRealLlmSummarization(e, data) ==
    IF e.openai # "valid"
    THEN [ok |-> FALSE, panicked |-> FALSE, content |-> <<>>]
    ELSE LET r == MakeRealOpenAiRequest(e, data) IN
         IF r.panicked \/ r.ok THEN r
         ELSE [ok |-> TRUE, panicked |-> FALSE,
               content |-> ApiFailedSummary(DataCount(data))]

\* std::env::var("OPENAI_API_KEY").is_ok() || std::env::var("ANTHROPIC_API_KEY").is_ok()
AnyApiKey(e) == e.openai # "unset" \/ e.anthropic

LastSummaryKey   == <<"last_summary">>
WorkflowPlanKey  == <<"workflow_plan">>
LastReasoningKey == <<"last_reasoning">>

\* The executor's handlers yield [state, ops, panicked, tried, trail]: the
\* key/value state and the operation records they leave, whether the
\* handler panicked, whether a try_real_llm_* call was made, and the
\* statuses written for the operation after "processing".

\* A faulty handler that returns without a status when the data is missing
HandleSummarizationTaskUnfinished(st, ops, e, payload, operation_id) ==
    IF Has(payload, "data")
    THEN [state |-> MapPut(st, LastSummaryKey,
                           FallbackSummary(DataCount(payload.data))),
          ops |-> MapPut(ops, operation_id, "completed_fallback"),
          panicked |-> FALSE, tried |-> TRUE,
          trail |-> <<"completed_fallback">>]
    ELSE [state |-> st, ops |-> ops, panicked |-> FALSE, tried |-> FALSE,
          trail |-> <<>>]

\* handle_summarization_task
HandleSummarizationTask(st, ops, e, payload, operation_id) ==
    IF Has(payload, "data")
    THEN LET r == TryRealLlmSummarization(e, payload.data) IN
         IF r.panicked
         THEN [state |-> st, ops |-> ops, panicked |-> TRUE, tried |-> TRUE,
               trail |-> <<>>]
         ELSE IF r.ok
         THEN [state |-> MapPut(st, LastSummaryKey, r.content),
               ops |-> MapPut(ops, operation_id, "completed"),
               panicked |-> FALSE, tried |-> TRUE, trail |-> <<"completed">>]
         ELSE [state |-> MapPut(st, LastSummaryKey,
                                FallbackSummary(DataCount(payload.data))),
               ops |-> MapPut(ops, operation_id, "completed_fallback"),
               panicked |-> FALSE, tried |-> TRUE,
               trail |-> <<"completed_fallback">>]
    ELSE [state |-> st, ops |-> MapPut(ops, operation_id, "failed"),
          panicked |-> FALSE, tried |-> FALSE, trail |-> <<"failed">>]

\* handle_workflow_planning_task
HandleWorkflowPlanningTask(st, ops, e, payload, operation_id) ==
    IF Has(payload, "task_description")
    THEN IF AnyApiKey(e)
         THEN [state |-> MapPut(st, WorkflowPlanKey, IntelligentWorkflow),
               ops |-> MapPut(ops, operation_id, "completed"),
               panicked |-> FALSE, tried |-> TRUE, trail |-> <<"completed">>]
         ELSE [state |-> MapPut(st, WorkflowPlanKey, FallbackWorkflow),
               ops |-> MapPut(ops, operation_id, "completed_fallback"),
               panicked |-> FALSE, tried |-> TRUE,
               trail |-> <<"completed_fallback">>]
    ELSE [state |-> st, ops |-> MapPut(ops, operation_id, "failed"),
          panicked |-> FALSE, tried |-> FALSE, trail |-> <<"failed">>]

\* A faulty handler that unwraps the prompt and panics when it is missing
HandleReasoningTaskPanics(st, ops, e, payload, operation_id) ==
    IF Has(payload, "prompt")
    THEN [state |-> MapPut(st, LastReasoningKey,
                           FallbackReasoning(payload.prompt)),
          ops |-> MapPut(ops, operation_id, "completed_fallback"),
          panicked |-> FALSE, tried |-> TRUE,
          trail |-> <<"completed_fallback">>]
    ELSE [state |-> st, ops |-> ops, panicked |-> TRUE, tried |-> FALSE,
          trail |-> <<>>]

\* handle_reasoning_task
HandleReasoningTask(st, ops, e, payload, operation_id) ==
    IF Has(payload, "prompt")
    THEN IF AnyApiKey(e)
         THEN [state |-> MapPut(st, LastReasoningKey, RealReasoning(payload.prompt)),
               ops |-> MapPut(ops, operation_id, "completed"),
               panicked |-> FALSE, tried |-> TRUE, trail |-> <<"completed">>]
         ELSE [state |-> MapPut(st, LastReasoningKey,
                                FallbackReasoning(payload.prompt)),
               ops |-> MapPut(ops, operation_id, "completed_fallback"),
               panicked |-> FALSE, tried |-> TRUE,
               trail |-> <<"completed_fallback">>]
    ELSE [state |-> st, ops |-> MapPut(ops, operation_id, "failed"),
          panicked |-> FALSE, tried |-> FALSE, trail |-> <<"failed">>]

\* A faulty executor that answers a task of an unknown kind with a fallback
HandleLlmTaskGuessing(st, ops, e, payload, operation_id) ==
    LET ops1 == MapPut(ops, operation_id, "processing") IN
    CASE payload.llm_task = "plan_workflow" ->
             HandleWorkflowPlanningTask(st, ops1, e, payload, operation_id)
      [] payload.llm_task = "reason" ->
             HandleReasoningTask(st, ops1, e, payload, operation_id)
      [] OTHER ->
             HandleSummarizationTask(st, ops1, e,
                 [payload EXCEPT !.has = @ \cup {"data"}], operation_id)

\* handle_llm_task, after operation_id was drawn: the record is inserted as
\* "processing" and the task is dispatched on its kind
HandleLlmTask(st, ops, e, payload, operation_id) ==
    LET ops1 == MapPut(ops, operation_id, "processing") IN
    CASE payload.llm_task = "summarize" ->
             HandleSummarizationTask(st, ops1, e, payload, operation_id)
      [] payload.llm_task = "plan_workflow" ->
             HandleWorkflowPlanningTask(st, ops1, e, payload, operation_id)
      [] payload.llm_task = "reason" ->
             HandleReasoningTask(st, ops1, e, payload, operation_id)
      [] OTHER ->
             [state |-> st, ops |-> MapPut(ops1, operation_id, "failed"),
              panicked |-> FALSE, tried |-> FALSE, trail |-> <<"failed">>]

----------------------------------------------------------------------------
(* AgentProcess: the message router *)

\* uuid::Uuid::new_v4().to_string(): the n-th value drawn.  Two draws are
\* taken to differ.
Uuid(n) == <<"uuid-", ToString(n)>>

\* A faulty key that leaves the uuid out
PendingKeyFixed(uuid) == <<"pending_llm_task_">>

\* format!("pending_llm_task_{}", uuid)
PendingKey(uuid) == Cat(<<"pending_llm_task_">>, uuid)

\* format!("coordination_message_{}", timestamp_millis)
CoordinationKey(now) == <<"coordination_message_", ToString(now)>>

\* format!("data_transfer_{}", transfer_id)
DataTransferKey(transfer_id) == <<"data_transfer_", transfer_id>>

ScrapedDataKey(task_id)   == <<"scraped_data_", task_id>>
ScrapingErrorKey(task_id) == <<"scraping_error_", task_id>>

\* scrape_website_real rejects a url that is empty or not http(s)
ValidUrl(url) == url \in {"https://x", "http://x"}

\* handle_scraping_task: the state it leaves
HandleScrapingTask(st, id, payload, now) ==
    IF Has(payload, "target")
    THEN LET t == payload.target IN
         IF ValidUrl(t.url)
         THEN MapPut(st, ScrapedDataKey(t.task_id),
                     [status |-> "success", url |-> t.url, task_id |-> t.task_id,
                      scraper_agent |-> id, at |-> now])
         ELSE MapPut(st, ScrapingErrorKey(t.task_id),
                     [status |-> "error", url |-> t.url, task_id |-> t.task_id,
                      scraper_agent |-> id, at |-> now])
    ELSE st

\* A faulty merge that keeps the pairs of `updates` alone
MergeUpdatesOnly(st, updates) == updates

\* the state after `for (key, value) in updates { state.insert(key, value) }`
MergeUpdates(st, updates) ==
    [k \in (DOMAIN st) \cup (DOMAIN updates) |->
        IF k \in DOMAIN updates THEN updates[k] ELSE st[k]]

\* message.payload.get("message_type").and_then(as_str).unwrap_or("standard")
MessageType(payload) ==
    IF Has(payload, "message_type") THEN payload.message_type ELSE "standard"

\* A faulty default arm that keeps one key for all senders
HandleRegularMessageOneKey(st, id, message, now) ==
    MapPut(st, <<"last_message_from_">>, message.payload)

\* handle_regular_message: the state it leaves
HandleRegularMessage(st, id, message, now) ==
    LET payload == message.payload
        type    == MessageType(payload)
    IN  CASE type = "state_update" ->
               IF Has(payload, "updates") /\ payload.updates.object
               THEN MergeUpdates(st, payload.updates.pairs)
               ELSE st
          [] type = "coordination" ->
               MapPut(st, CoordinationKey(now), payload)
          [] type = "data_transfer" ->
               IF Has(payload, "data")
               THEN MapPut(st,
                           DataTransferKey(IF Has(payload, "transfer_id")
                                           THEN payload.transfer_id
                                           ELSE "unknown"),
                           payload.data)
               ELSE st
          [] type = "scraping_task" ->
               HandleScrapingTask(st, id, payload, now)
          [] OTHER ->
               MapPut(st, LastMessageKey(message.from), payload)

\* process_message_standard: [state, ops, uuids, panicked, tried, opId, trail]
ProcessMessageStandard(st, ops, drawn, cfg, e, message, now) ==
    IF Has(message.payload, "llm_task")
    THEN IF cfg.llm_enabled
         THEN LET operation_id == Uuid(drawn + 1)
                  r == HandleLlmTask(st, ops, e, message.payload, operation_id)
              IN  [state |-> r.state, ops |-> r.ops, uuids |-> drawn + 1,
                   panicked |-> r.panicked, tried |-> r.tried,
                   opId |-> operation_id,
                   trail |-> IF r.panicked THEN <<"processing">>
                             ELSE <<"processing">> \o r.trail]
         ELSE [state |-> MapPut(st, PendingKey(Uuid(drawn + 1)), message.payload),
               ops |-> ops, uuids |-> drawn + 1, panicked |-> FALSE,
               tried |-> FALSE, opId |-> <<>>, trail |-> <<>>]
    ELSE [state |-> HandleRegularMessage(st, cfg.id, message, now),
          ops |-> ops, uuids |-> drawn, panicked |-> FALSE, tried |-> FALSE,
          opId |-> <<>>, trail |-> <<>>]

\* message.payload.get("priority").and_then(as_str).unwrap_or("normal")
Priority(payload) ==
    IF Has(payload, "priority") THEN payload.priority ELSE "normal"

\* A faulty router that drops a message whose priority it does not know
RouteByPriorityRejecting(st, ops, drawn, cfg, e, message, now) ==
    IF Priority(message.payload) \in {"critical", "high", "medium", "normal", "low"}
    THEN ProcessMessageStandard(st, ops, drawn, cfg, e, message, now)
    ELSE [state |-> st, ops |-> ops, uuids |-> drawn, panicked |-> FALSE,
          tried |-> FALSE, opId |-> <<>>, trail |-> <<>>]

\* MessageHandler<AgentMessage>::handle after the count: every priority,
\* known or not, ends in process_message_standard
RouteByPriority(st, ops, drawn, cfg, e, message, now) ==
    CASE Priority(message.payload) \in {"critical", "high"} ->
             ProcessMessageStandard(st, ops, drawn, cfg, e, message, now)
      [] Priority(message.payload) \in {"medium", "normal"} ->
             ProcessMessageStandard(st, ops, drawn, cfg, e, message, now)
      [] Priority(message.payload) = "low" ->
             ProcessMessageStandard(st, ops, drawn, cfg, e, message, now)
      [] OTHER ->
             ProcessMessageStandard(st, ops, drawn, cfg, e, message, now)

\* MessageHandler<StateAction>::handle: the state it leaves
ProcStateAction(st, action) ==
    CASE action.type = "Store"  -> MapPut(st, action.key, action.value)
      [] action.type = "Delete" -> MapDel(st, action.key)
      [] action.type = "Clear"  -> EmptyMap
      [] OTHER                  -> st

\* whether handling the payload reads the clock
ReadsClock(payload) ==
    /\ ~Has(payload, "llm_task")
    /\ MessageType(payload) \in {"coordination", "scraping_task"}

----------------------------------------------------------------------------
(* AgentProcess: the mailbox.  The host delivers what is sent to a process  *)
(* in the order of the sends and hands the handler one message at a time.   *)

\* who sends StateAction, GetAgentState and Shutdown
Caller == <<"caller">>

NoMessage == [from |-> <<>>, to |-> <<>>,
              payload |-> Payload({}, "", "", "", 0, NoData, "", EmptyMap, "",
                                  NoTarget)]

AgentMessageItem(m) == [type |-> "AgentMessage", msg |-> m, action |-> NoAction]
StateActionItem(a)  == [type |-> "StateAction", msg |-> NoMessage, action |-> a]
GetAgentStateItem   == [type |-> "GetAgentState", msg |-> NoMessage, action |-> NoAction]
ShutdownItem        == [type |-> "Shutdown", msg |-> NoMessage, action |-> NoAction]

NothingHandled ==
    [type |-> "none", msg |-> NoMessage, action |-> NoAction, opId |-> <<>>,
     trail |-> <<>>, tried |-> FALSE, changed |-> FALSE, opsBefore |-> EmptyMap,
     returned |-> TRUE, reply |-> EmptyMap]

\* MessageHandler<AgentMessage>::handle runs to its end, or panics
ProcHandleAgentMessage(m) ==
    /\ procStatus = "ready"
    /\ \E now \in clock..MaxClock :
          /\ ReadsClock(m.payload) \/ now = clock
          /\ LET r == RouteByPriority(procState, llm_operations, uuids,
                                      config, env, m, now)
             IN  /\ message_count' = message_count + 1
                 /\ procState' = r.state
                 /\ llm_operations' = r.ops
                 /\ uuids' = r.uuids
                 /\ clock' = now
                 /\ procStatus' = IF r.panicked THEN "panicked" ELSE "ready"
                 /\ llmTasks' = IF Has(m.payload, "llm_task")
                                THEN llmTasks + 1 ELSE llmTasks
                 /\ lastHandled' =
                      [type |-> "AgentMessage", msg |-> m,
                       action |-> NoAction, opId |-> r.opId,
                       trail |-> r.trail, tried |-> r.tried,
                       changed |-> (r.state # procState),
                       opsBefore |-> llm_operations,
                       returned |-> ~r.panicked, reply |-> EmptyMap]
    /\ UNCHANGED <<procClaimed, config, env>>

\* A faulty handler whose Clear empties the operation records as well
ProcHandleStateActionDropsRecords(action) ==
    /\ procStatus = "ready"
    /\ procState' = ProcStateAction(procState, action)
    /\ procClaimed' = ClaimedAfter(procClaimed, action)
    /\ llm_operations' = IF action.type = "Clear" THEN EmptyMap
                          ELSE llm_operations
    /\ lastHandled' =
         [NothingHandled EXCEPT !.type = "StateAction",
                                !.action = action,
                                !.changed = (procState' # procState),
                                !.opsBefore = llm_operations]
    /\ UNCHANGED <<message_count, uuids, clock, procStatus, config, env,
                   llmTasks>>

\* MessageHandler<StateAction>::handle
ProcHandleStateAction(action) ==
    /\ procStatus = "ready"
    /\ procState' = ProcStateAction(procState, action)
    /\ procClaimed' = ClaimedAfter(procClaimed, action)
    /\ lastHandled' =
         [NothingHandled EXCEPT !.type = "StateAction",
                                !.action = action,
                                !.changed = (procState' # procState),
                                !.opsBefore = llm_operations]
    /\ UNCHANGED <<message_count, llm_operations, uuids, clock, procStatus,
                   config, env, llmTasks>>

\* RequestHandler<GetAgentState>::handle: the reply is a clone of the state
ProcHandleGetAgentState ==
    /\ procStatus = "ready"
    /\ lastHandled' =
         [NothingHandled EXCEPT !.type = "GetAgentState",
                                !.reply = procState,
                                !.opsBefore = llm_operations]
    /\ UNCHANGED <<procState, procClaimed, message_count, llm_operations,
                   uuids, clock, procStatus, config, env, llmTasks>>

\* MessageHandler<Shutdown>::handle: a log line
ProcHandleShutdown ==
    /\ procStatus = "ready"
    /\ lastHandled' =
         [NothingHandled EXCEPT !.type = "Shutdown",
                                !.opsBefore = llm_operations]
    /\ UNCHANGED <<procState, procClaimed, message_count, llm_operations,
                   uuids, clock, procStatus, config, env, llmTasks>>

\* the handler of a mailbox item
HandleItem(item) ==
    CASE item.type = "AgentMessage"  -> ProcHandleAgentMessage(item.msg)
      [] item.type = "StateAction"   -> ProcHandleStateAction(item.action)
      [] item.type = "GetAgentState" -> ProcHandleGetAgentState
      [] item.type = "Shutdown"      -> ProcHandleShutdown

\* send_message_to_agent, send_state_action_to_agent, get_agent_state,
\* shutdown_agent: the item joins the mailbox
Send(sender, item) ==
    /\ Len(sentLog[sender]) < MaxSendsPerSender
    /\ mailbox' = Append(mailbox, item)
    /\ sentLog' = [sentLog EXCEPT ![sender] = Append(@, item)]
    /\ UNCHANGED <<procState, procClaimed, message_count, llm_operations,
                   config, env, uuids, clock, procStatus, lastHandled, handled,
                   llmTasks>>
    /\ UNCHANGED <<storeVars, retryVars, supVars, sharedVars>>

\* the item at the head of the mailbox is handled
HandleNext ==
    /\ mailbox # <<>>
    /\ HandleItem(Head(mailbox))
    /\ mailbox' = Tail(mailbox)
    /\ UNCHANGED <<sentLog, handled>>
    /\ UNCHANGED <<storeVars, retryVars, supVars, sharedVars>>

\* an item reaches a process whose mailbox is empty, to be handled at once
Arrives ==
    /\ handled < MaxMessages
    /\ mailbox = <<>>
    /\ handled' = handled + 1
    /\ UNCHANGED <<mailbox, sentLog>>
    /\ UNCHANGED <<storeVars, retryVars, supVars, sharedVars>>

----------------------------------------------------------------------------
(* Initial states *)

\* the environments: OPENAI_API_KEY unset, shorter than 10 characters or
\* valid; ANTHROPIC_API_KEY and BROWSERBASE_API_KEY set or not
Envs ==
    { [openai |-> "unset", anthropic |-> FALSE, browserbase |-> FALSE],
      [openai |-> "unset", anthropic |-> TRUE,  browserbase |-> FALSE],
      [openai |-> "short", anthropic |-> FALSE, browserbase |-> TRUE],
      [openai |-> "valid", anthropic |-> FALSE, browserbase |-> FALSE],
      [openai |-> "valid", anthropic |-> FALSE, browserbase |-> TRUE] }

NoEnv == [openai |-> "unset", anthropic |-> FALSE, browserbase |-> FALSE]

\* an AgentState that takes no step
IdleStore ==
    /\ agentId = <<"a">>
    /\ ephemeral = EmptyMap
    /\ backend = NewBackend("InMemory")
    /\ nats = FALSE
    /\ published = <<>>
    /\ asResult = [op |-> "new", key |-> <<>>, found |-> NotFound, res |-> "Ok"]
    /\ lastMsg = [to |-> agentId, kind |-> "none", changed |-> FALSE, seq |-> 0]
    /\ claimed = [k \in Keys |-> NotFound]
    /\ rt = NoRoundTrip

\* AgentProcess::init(config)
InitProcWith(llm_enabled, e) ==
    /\ procState = EmptyMap
    /\ procClaimed = [k \in Keys |-> NotFound]
    /\ message_count = 0
    /\ llm_operations = EmptyMap
    /\ config = [id |-> ProcId, llm_enabled |-> llm_enabled]
    /\ mailbox = <<>>
    /\ sentLog = [s \in Senders \cup {Caller} |-> <<>>]
    /\ env = e
    /\ uuids = 0
    /\ clock = 0
    /\ procStatus = "ready"
    /\ lastHandled = NothingHandled
    /\ handled = 0
    /\ llmTasks = 0

InitProc ==
    \/ InitProcWith(FALSE, NoEnv)
    \/ \E e \in Envs : InitProcWith(TRUE, e)

IdleProc == InitProcWith(FALSE, NoEnv)

IdleRetry == retry = RetryIdle

\* no supervisor was started
NoSupervisor == [status |-> "none", configs |-> <<>>, args |-> <<>>, restarts |-> 0]

IdleSup == sup = NoSupervisor

\* the names of the holders of a clone of one InMemoryBackend
Holders == {"h1", "h2"}

NoCall == [op |-> "none", key |-> <<>>, value |-> NotFound]

NoReturn == [value |-> NotFound, keys |-> {}, deleted |-> FALSE]

\* a holder that has called nothing
IdleHolder == [pc |-> "idle", call |-> NoCall, guard |-> EmptyMap, ret |-> NoReturn, expected |-> NoReturn]

\* InMemoryBackend::new and its clones: an empty map, its lock free
NewArc == [map |-> EmptyMap, owner |-> "none"]

\* no second AgentState
NoPeer == [id |-> <<>>, ephemeral |-> EmptyMap, written |-> {}]

\* an InMemoryBackend on which no holder calls anything
IdleShared ==
    /\ arc = NewArc
    /\ holders = [h \in Holders |-> IdleHolder]
    /\ seqMap = EmptyMap
    /\ peer = NoPeer

----------------------------------------------------------------------------
(* Specifications *)

\* the operations of an AgentState called directly
NextStore ==
    \/ \E a \in StateActions :
          HandleStateAction(a) /\ UNCHANGED <<procVars, retryVars, supVars, sharedVars>>
    \/ LoadAll /\ UNCHANGED <<procVars, retryVars, supVars, sharedVars>>
    \/ SaveAll /\ UNCHANGED <<procVars, retryVars, supVars, sharedVars>>
    \/ ClearEphemeral /\ UNCHANGED <<procVars, retryVars, supVars, sharedVars>>

\* an AgentState of any id over either backend; nothing else runs
Init == InitStore /\ IdleProc /\ IdleRetry /\ IdleSup /\ IdleShared

Spec == Init /\ [][NextStore]_vars

\* messages given to AgentState::handle_message
NextMessages ==
    /\ lastMsg.seq < MaxStoreMessages
    /\ \E m \in StoreMessages : HandleMessage(m)
    /\ UNCHANGED <<procVars, retryVars, supVars, sharedVars>>

SpecMessages == Init /\ [][NextMessages]_vars

\* one sequence of state actions given to an AgentState and to an AgentProcess
StateActionOnBoth(a) ==
    /\ HandleStateAction(a)
    /\ ProcHandleStateAction(a)
    /\ UNCHANGED <<mailbox, sentLog, handled, retryVars, supVars, sharedVars>>

NextStateActions == \E a \in StateActions : StateActionOnBoth(a)

SpecStateActions == Init /\ [][NextStateActions]_vars

\* Two senders send default-type messages to one agent process, which
\* handles its mailbox in the order of arrival
OrderPayloads ==
    {p \in DefaultPayloads :
        p.priority = "" \/ (p.priority = "high" /\ p.seq = 2)}

OrderMessages == [from : Senders, to : {ProcId}, payload : OrderPayloads]

InitOrder == IdleStore /\ IdleProc /\ IdleRetry /\ IdleSup /\ IdleShared

NextOrder ==
    \/ \E m \in OrderMessages : Send(m.from, AgentMessageItem(m))
    \/ HandleNext

SpecOrder == InitOrder /\ [][NextOrder]_vars

\* An agent process handles whatever its callers send, one item at a time
ProcMessages ==
    [from : {StoreSender}, to : {ProcId},
     payload : {p \in ProcPayloads : p.seq # 2}]
    \cup [from : {StoreSender}, to : {OtherId},
          payload : {p \in ProcPayloads :
                       \/ p \in DefaultPayloads /\ p.priority = "" /\ p.seq = 1
                       \/ p.message_type = "coordination"}]

\* the state actions on the key "k"
ProcStateActions == {a \in StateActions : a.key \in {<<>>, <<"k">>}}

InitProcess == IdleStore /\ InitProc /\ IdleRetry /\ IdleSup /\ IdleShared

NextProcess ==
    \/ \E m \in ProcMessages : Arrives /\ ProcHandleAgentMessage(m)
    \/ \E a \in ProcStateActions : Arrives /\ ProcHandleStateAction(a)
    \/ Arrives /\ ProcHandleGetAgentState
    \/ Arrives /\ ProcHandleShutdown

SpecProcess == InitProcess /\ [][NextProcess]_vars

\* retry_llm_operation and safe_llm_operation
InitRetry == IdleStore /\ IdleProc /\ retry \in RetryBuilds /\ IdleSup /\ IdleShared

SpecRetry == InitRetry /\ [][NextRetry]_vars

\* the executor polls the future until it is ready
SpecRetryFair == SpecRetry /\ WF_vars(NextRetry)

----------------------------------------------------------------------------
(* Properties *)

\* C1: after any sequence of Store/Delete/Clear state actions on one agent,
\* get(k) finds the value of the most recent store(k, v) not since followed
\* by delete(k) or clear, and nothing otherwise -- for the AgentState and
\* for the AgentProcess alike.
C1_LastWriterWins ==
    /\ \A k \in Keys : GetFinds(ephemeral, backend, agentId, k) = claimed[k]
    /\ \A k \in Keys : MapGet(procState, k) = procClaimed[k]

\* the pairs of `saved` are all in `eph`
Restored(saved, eph) ==
    \A k \in DOMAIN saved : k \in DOMAIN eph /\ eph[k] = saved[k]

C3_NotAppliedToOther ==
    (lastMsg.seq > 0 /\ lastMsg.to # agentId) => ~lastMsg.changed

\* the outcomes of the attempts made so far are all retryable errors
AllRetryable(outcomes) ==
    \A i \in 1..Len(outcomes) : IsRetryable(outcomes[i])

\* C4: when every attempt fails with a retryable error, operation() is
\* invoked exactly max_retries + 1 times and an error is returned.
C4_RetryableEveryAttempt ==
    (retry.pc = "done" /\ AllRetryable(retry.outcomes)) =>
        /\ retry.calls = retry.max_retries + 1
        /\ Len(retry.outcomes) = retry.calls
        /\ retry.result \in ErrorKinds
        /\ IsRetryable(retry.result)

\* three attempts, a different retryable error each, for max_retries = 2
C4_Witness ==
    /\ retry.pc = "done"
    /\ retry.max_retries = 2
    /\ retry.outcomes = <<"LLMTimeout", "LLMRateLimit", "Nats">>
    /\ retry.result = "Nats"

\* C5: an attempt that fails with a non-retryable error is the last one and
\* its error is returned; a non-retryable first attempt is the only one.
C5_NonRetryableStops ==
    \A i \in 1..Len(retry.outcomes) :
        (retry.outcomes[i] \in ErrorKinds /\ ~IsRetryable(retry.outcomes[i])) =>
            /\ i = Len(retry.outcomes)
            /\ retry.calls = i
            /\ retry.pc = "done"
            /\ retry.result = retry.outcomes[i]

\* one attempt, non-retryable, with four retries allowed
C5_Witness ==
    /\ retry.pc = "done"
    /\ retry.max_retries = 4
    /\ retry.calls = 1
    /\ retry.outcomes = <<"LLMProvider">>
    /\ retry.result = "LLMProvider"

\* at most max_retries + 1 attempts, none after a success, at most 4 under
\* safe_llm_operation
BoundedAttempts ==
    /\ retry.calls <= retry.max_retries + 1
    /\ retry.calls = Len(retry.outcomes)
    /\ \A i \in 1..Len(retry.outcomes) :
          retry.outcomes[i] = "Ok" =>
              /\ i = Len(retry.outcomes)
              /\ retry.pc = "done"
              /\ retry.result = "Ok"
    /\ retry.caller = "safe_llm_operation" => retry.calls <= 4

\* C6: whatever the attempts return, retry_llm_operation returns, after at
\* most max_retries + 1 attempts, Ok at the first success; under
\* safe_llm_operation at most 4 attempts are made.
C6_RetryTerminates ==
    /\ []BoundedAttempts
    /\ (retry.pc = "loop") ~> (retry.pc = "done")

\* safe_llm_operation succeeds at its fourth and last attempt
C6_Witness ==
    /\ retry.pc = "done"
    /\ retry.caller = "safe_llm_operation"
    /\ retry.calls = 4
    /\ retry.result = "Ok"

\* the messages of sender s the process has handled so far
HandledFrom(s) ==
    Len(sentLog[s]) -
    Cardinality({i \in 1..Len(mailbox) : mailbox[i].msg.from = s})

\* C7: last_message_from_A holds the payload of the last message of A that
\* was handled -- the last one A sent once the mailbox is empty -- whatever
\* the other senders sent in between.
C7_PerSenderOrder ==
    \A s \in Senders :
        IF HandledFrom(s) = 0
        THEN LastMessageKey(s) \notin DOMAIN procState
        ELSE /\ LastMessageKey(s) \in DOMAIN procState
             /\ procState[LastMessageKey(s)] =
                    sentLog[s][HandledFrom(s)].msg.payload

\* s1 sent {seq:1} then {seq:2}, s2's message was handled last, and
\* last_message_from_s1 is {seq:2}
C7_Witness ==
    /\ mailbox = <<>>
    /\ Len(sentLog[<<"s1">>]) = 2
    /\ sentLog[<<"s1">>][1].msg.payload.seq = 1
    /\ sentLog[<<"s1">>][2].msg.payload.seq = 2
    /\ sentLog[<<"s2">>] # <<>>
    /\ lastHandled.msg.from = <<"s2">>
    /\ procState[LastMessageKey(<<"s1">>)].seq = 2

\* the task kinds handle_llm_task knows, the field each requires and the
\* key each writes its result to
KnownKinds == {"summarize", "plan_workflow", "reason"}

RequiredField(kind) ==
    CASE kind = "summarize"     -> "data"
      [] kind = "plan_workflow" -> "task_description"
      [] kind = "reason"        -> "prompt"

ResultKey(kind) ==
    CASE kind = "summarize"     -> LastSummaryKey
      [] kind = "plan_workflow" -> WorkflowPlanKey
      [] kind = "reason"        -> LastReasoningKey

\* the last item handled was an llm_task message, by an LLM-enabled agent
LlmTaskHandled ==
    /\ lastHandled.type = "AgentMessage"
    /\ Has(lastHandled.msg.payload, "llm_task")
    /\ config.llm_enabled

Malformed(payload) ==
    \/ payload.llm_task \notin KnownKinds
    \/ ~Has(payload, RequiredField(payload.llm_task))

\* C8: a malformed llm_task handled by an LLM-enabled agent creates exactly
\* one operation record, which ends `failed`; no provider attempt is made
\* and the key/value state is unchanged.
C8_MalformedTaskFails ==
    (LlmTaskHandled /\ Malformed(lastHandled.msg.payload)) =>
        /\ lastHandled.returned
        /\ lastHandled.opId \notin DOMAIN lastHandled.opsBefore
        /\ DOMAIN llm_operations =
               (DOMAIN lastHandled.opsBefore) \cup {lastHandled.opId}
        /\ \A id \in DOMAIN lastHandled.opsBefore :
               llm_operations[id] = lastHandled.opsBefore[id]
        /\ lastHandled.trail = <<"processing", "failed">>
        /\ llm_operations[lastHandled.opId] = "failed"
        /\ ~lastHandled.tried
        /\ ~lastHandled.changed

\* a malformed task was handled after an earlier task left a record and a
\* result
C8_Witness ==
    /\ LlmTaskHandled
    /\ Malformed(lastHandled.msg.payload)
    /\ lastHandled.opsBefore # EmptyMap
    /\ procState # EmptyMap
    /\ llm_operations[lastHandled.opId] = "failed"

\* C9: an llm_task of a known kind with its required field present is
\* handled to the end, its record ends `completed` or `completed_fallback`,
\* and its result key holds a value.
C9_LlmErrorsAbsorbed ==
    (LlmTaskHandled /\ ~Malformed(lastHandled.msg.payload)) =>
        /\ lastHandled.returned
        /\ llm_operations[lastHandled.opId] \in
               {"completed", "completed_fallback"}
        /\ ResultKey(lastHandled.msg.payload.llm_task) \in DOMAIN procState

\* the markers of a text made up locally in place of a provider response
FallbackMarkers == {"[FALLBACK]", "[API-FAILED-FALLBACK]"}

\* C10: after a summarize task, a last_summary that carries a fallback
\* marker goes with the status `completed_fallback`, and the status
\* `completed` goes with a provider response.
C10_FallbackHasStatus ==
    ( /\ LlmTaskHandled
      /\ lastHandled.returned
      /\ lastHandled.msg.payload.llm_task = "summarize"
      /\ Has(lastHandled.msg.payload, "data") ) =>
        LET marker == Head(procState[LastSummaryKey])
            status == llm_operations[lastHandled.opId]
        IN  /\ marker \in FallbackMarkers => status = "completed_fallback"
            /\ status = "completed" => marker \notin FallbackMarkers

\* the statuses a record ends in
Terminal == {"completed", "completed_fallback", "failed"}

\* the records that are in a terminal status stay as they are
TerminalKept ==
    \A id \in DOMAIN llm_operations :
        llm_operations[id] \in Terminal =>
            /\ id \in DOMAIN llm_operations'
            /\ llm_operations'[id] = llm_operations[id]

\* the last llm_task added one record under a fresh id, first `processing`,
\* then, when the handler returned, written once more with a terminal status
OneRecordOneMove ==
    LlmTaskHandled =>
        /\ lastHandled.opId \notin DOMAIN lastHandled.opsBefore
        /\ DOMAIN llm_operations =
               (DOMAIN lastHandled.opsBefore) \cup {lastHandled.opId}
        /\ Head(lastHandled.trail) = "processing"
        /\ lastHandled.returned =>
               /\ Len(lastHandled.trail) = 2
               /\ lastHandled.trail[2] \in Terminal
               /\ llm_operations[lastHandled.opId] = lastHandled.trail[2]

\* between two messages no record is `processing`
NoneProcessingBetweenMessages ==
    procStatus = "ready" =>
        \A id \in DOMAIN llm_operations : llm_operations[id] \in Terminal

RecordsKept ==
    \A id \in DOMAIN llm_operations :
        /\ id \in DOMAIN llm_operations'
        /\ llm_operations'[id] = llm_operations[id]

\* as many records as llm_task messages handled by an LLM-enabled agent
RecordCount ==
    config.llm_enabled => Cardinality(DOMAIN llm_operations) = llmTasks

\* C12: no item the agent handles -- a message, a state action (Clear
\* included), GetAgentState, Shutdown -- removes a record or alters the
\* record of an earlier invocation, and an LLM-enabled agent holds as many
\* records as it has handled llm_task messages.
C12_RecordsAppendOnly ==
    /\ []RecordCount
    /\ [][RecordsKept]_vars

\* a Clear was handled after an llm_task and the record is still there
C12_Witness ==
    /\ lastHandled.type = "StateAction"
    /\ lastHandled.action.type = "Clear"
    /\ llmTasks = 1
    /\ Cardinality(DOMAIN llm_operations) = 1

----------------------------------------------------------------------------
(* An LLM-enabled agent process that is sent malformed tasks and regular    *)
(* messages (test_llm_fault_tolerance)                                      *)

\* {"llm_task": kind} of an unknown kind or without the field the kind needs
MalformedPayloads == {p \in LlmPayloads : Malformed(p)}

\* a payload with no llm_task and no message_type
RegularPayload ==
    Payload({"seq"}, "", "", "", 1, NoData, "", EmptyMap, "", NoTarget)

RegularMessages == [from : Senders, to : {ProcId}, payload : {RegularPayload}]

SurviveMessages ==
    [from : {<<"s1">>}, to : {ProcId}, payload : MalformedPayloads]
    \cup RegularMessages

InitSurvive == IdleStore /\ InitProcWith(TRUE, NoEnv) /\ IdleRetry /\ IdleSup /\ IdleShared

NextSurvive ==
    \/ \E m \in SurviveMessages : Send(m.from, AgentMessageItem(m))
    \/ HandleNext

SpecSurvive == InitSurvive /\ [][NextSurvive]_vars

\* the host hands the process the head of a mailbox that is not empty
SpecSurviveFair == SpecSurvive /\ WF_vars(HandleNext)

\* the regular message m waits in the mailbox
Waiting(m) ==
    \E i \in 1..Len(mailbox) : mailbox[i] = AgentMessageItem(m)

\* the payload of m is what last_message_from_<sender> holds
Processed(m) ==
    /\ LastMessageKey(m.from) \in DOMAIN procState
    /\ procState[LastMessageKey(m.from)] = m.payload

\* C13: whatever malformed llm_task messages (unknown kind, missing data,
\* missing task_description, missing prompt) the agent is sent, it stays in
\* its message loop, and a regular message of sender S that reaches the
\* mailbox is eventually handled and stored under last_message_from_S.
C13_SurvivesMalformed ==
    /\ [](procStatus = "ready")
    /\ \A m \in RegularMessages : Waiting(m) ~> Processed(m)

\* a malformed task of s1 was handled and failed, and the regular message
\* s1 sent after it is stored
C13_Witness ==
    /\ mailbox = <<>>
    /\ Len(sentLog[<<"s1">>]) = 2
    /\ Malformed(sentLog[<<"s1">>][1].msg.payload)
    /\ sentLog[<<"s1">>][2].msg.payload = RegularPayload
    /\ llmTasks = 1
    /\ \A id \in DOMAIN llm_operations : llm_operations[id] = "failed"
    /\ Processed([from |-> <<"s1">>, to |-> ProcId, payload |-> RegularPayload])

----------------------------------------------------------------------------
(* Properties of an agent process whose LLM capability is disabled *)

PendingPrefix == <<"pending_llm_task_">>

\* the keys of the state that hold a pending task
PendingKeys(st) == {k \in DOMAIN st : StartsWith(k, PendingPrefix)}

\* this step is an LLM-disabled agent handling a message with an llm_task
DisabledTaskStep ==
    /\ handled' = handled + 1
    /\ ~config.llm_enabled
    /\ lastHandled'.type = "AgentMessage"
    /\ Has(lastHandled'.msg.payload, "llm_task")

\* the step adds the payload under one new pending key and nothing else
PendingStored ==
    DisabledTaskStep =>
        LET new == (DOMAIN procState') \ (DOMAIN procState) IN
        /\ llm_operations' = llm_operations
        /\ Cardinality(new) = 1
        /\ \A k \in new : /\ StartsWith(k, PendingPrefix)
                           /\ procState'[k] = lastHandled'.msg.payload
        /\ \A k \in DOMAIN procState : procState'[k] = procState[k]

\* an agent that has handled nothing but N such messages holds N pending
\* keys and no record
PendingCount ==
    ~config.llm_enabled =>
        /\ llm_operations = EmptyMap
        /\ handled = llmTasks =>
               /\ Cardinality(PendingKeys(procState)) = llmTasks
               /\ PendingKeys(procState) = DOMAIN procState

\* C14: an agent with llm_enabled = false that handles a message carrying
\* an llm_task creates no operation record, stores the payload as it is
\* under a key pending_llm_task_* that was not in the state, changes no
\* other key, and holds N pending keys after N such messages.
C14_DisabledStoresPending ==
    /\ []PendingCount
    /\ [][PendingStored]_vars

\* two tasks were handled and both payloads are kept
C14_Witness ==
    /\ ~config.llm_enabled
    /\ llmTasks = 2
    /\ handled = 2
    /\ Cardinality(PendingKeys(procState)) = 2
    /\ \E k \in PendingKeys(procState) :
          procState[k] = lastHandled.msg.payload
    /\ \E k \in PendingKeys(procState) :
          procState[k] # lastHandled.msg.payload

----------------------------------------------------------------------------
(* Properties of workflow planning *)

\* The provider is out of reach: try_real_llm_workflow_planning returns Err,
\* which it does when neither OPENAI_API_KEY nor ANTHROPIC_API_KEY is set.
\* (With a key set the function answers with its built-in plan; it makes
\* no call that could fail.)
ProviderUnreachable == ~AnyApiKey(env)

\* the last item handled was a plan_workflow task with a task_description
PlanTaskHandled ==
    /\ LlmTaskHandled
    /\ lastHandled.msg.payload.llm_task = "plan_workflow"
    /\ Has(lastHandled.msg.payload, "task_description")

\* the `action` of each step of a plan, in order
ActionsOf(plan) == [i \in 1..Len(plan) |-> plan[i].action]

----------------------------------------------------------------------------
(* Properties of the two views of an AgentState *)

\* every pair of the ephemeral view is in the backend under "{id}:{key}"
WrittenThrough(eph, b, id) ==
    \A k \in DOMAIN eph :
        /\ PersistentKey(id, k) \in DOMAIN b.storage
        /\ b.storage[PersistentKey(id, k)] = eph[k]

\* C16: after every message or state action that is handled without an
\* error, every pair (k, v) of the ephemeral view has the persistent pair
\* ("{agentId}:k", v) -- for the mutations made by state actions and by
\* application messages alike.
C16_WriteThrough ==
    asResult.res = "Ok" => WrittenThrough(ephemeral, backend, agentId)

----------------------------------------------------------------------------
(* An AgentState over a backend whose methods may fail *)

\* AgentState::new(id, backend) with another implementation of the trait
InitFallible ==
    /\ agentId \in AgentIds
    /\ ephemeral = EmptyMap
    /\ backend = NewBackend("Fallible")
    /\ nats = FALSE
    /\ published = <<>>
    /\ asResult = [op |-> "new", key |-> <<>>, found |-> NotFound, res |-> "Ok"]
    /\ lastMsg = [to |-> agentId, kind |-> "none", changed |-> FALSE, seq |-> 0]
    /\ claimed = [k \in Keys |-> NotFound]
    /\ rt = NoRoundTrip
    /\ IdleProc
    /\ IdleRetry /\ IdleSup /\ IdleShared

NextFallible ==
    \/ \E a \in StateActions :
          HandleStateAction(a) /\ UNCHANGED <<procVars, retryVars, supVars, sharedVars>>
    \/ ClearEphemeral /\ UNCHANGED <<procVars, retryVars, supVars, sharedVars>>

SpecFallible == InitFallible /\ [][NextFallible]_vars

\* C17: Get{key} never returns an error: when the key is not in the
\* ephemeral view and the backend's retrieve fails, the action ends as it
\* does on a miss.
C17_GetFailSoft ==
    asResult.op = "Get" => asResult.res = "Ok"

----------------------------------------------------------------------------
(* Properties of Store, Delete and Clear *)

\* the file of the key does not hold the value: File::create or write_all
\* failed
FileWriteFailed(b, pk, value) ==
    /\ b.kind = "File"
    /\ MapGet(b.disk.files, pk) # value

\* C18: a Store{key, value} whose persistent write fails returns the error
\* to its caller and leaves the new value in the ephemeral view, so that a
\* following Get{key} finds the new value.
C18_StoreFailureKeepsEphemeral ==
    asResult.op = "Store" =>
        LET k == asResult.key IN
        /\ FileWriteFailed(backend, PersistentKey(agentId, k), claimed[k]) =>
               asResult.res = "Err"
        /\ asResult.res = "Err" =>
               /\ MapGet(ephemeral, k) = claimed[k]
               /\ GetFinds(ephemeral, backend, agentId, k) = claimed[k]

\* a Store of v2 failed in write_all: the file is torn and the ephemeral
\* view holds v2
C18_Witness ==
    /\ asResult.op = "Store"
    /\ asResult.res = "Err"
    /\ claimed[asResult.key] = "v2"
    /\ MapGet(ephemeral, asResult.key) = "v2"
    /\ PersistentKey(agentId, asResult.key) \in backend.disk.torn

\* the key is in neither view: not in the ephemeral map, and the backend's
\* retrieve finds nothing under "{id}:{key}"
AbsentFromBoth(eph, b, id, key) ==
    /\ key \notin DOMAIN eph
    /\ BackendRetrieve(b, PersistentKey(id, key)) = NotFound

\* after a Delete that returned Ok the key is in neither view and Get finds
\* nothing
DeletedIsGone ==
    (asResult.op = "Delete" /\ asResult.res = "Ok") =>
        /\ AbsentFromBoth(ephemeral, backend, agentId, asResult.key)
        /\ GetFinds(ephemeral, backend, agentId, asResult.key) = NotFound

\* a Delete of a key that is in neither view returns Ok and changes neither
DeleteAbsentIsNoOp ==
    ( /\ asResult'.op = "Delete"
      /\ AbsentFromBoth(ephemeral, backend, agentId, asResult'.key) ) =>
        /\ asResult'.res = "Ok"
        /\ ephemeral' = ephemeral
        /\ backend' = backend

\* C19: after Delete{key} succeeds the key is absent from the ephemeral view
\* and from the persistent view (what the backend's retrieve returns), a
\* following Get{key} finds nothing, and deleting a key that is absent --
\* the same key a second time included -- returns no error and leaves the
\* state as it was after the first delete.
C19_DeleteIdempotent ==
    /\ []DeletedIsGone
    /\ [][DeleteAbsentIsNoOp]_vars

\* one key was deleted from both views while the other key is in both
C19_Witness ==
    /\ asResult.op = "Delete"
    /\ asResult.res = "Ok"
    /\ AbsentFromBoth(ephemeral, backend, agentId, asResult.key)
    /\ \E k \in Keys \ {asResult.key} :
          /\ k \in DOMAIN ephemeral
          /\ BackendRetrieve(backend, PersistentKey(agentId, k)) = ephemeral[k]

\* C20: after the Clear state action succeeds the ephemeral view is empty
\* and the backend lists no key under the prefix "{agentId}:", so that a
\* following loadAll() leaves the ephemeral view empty.
C20_ClearWipesBoth ==
    /\ (asResult.op = "Clear" /\ asResult.res = "Ok") =>
           /\ ephemeral = EmptyMap
           /\ BackendListKeys(backend, NamespacePrefix(agentId)) = {}
           /\ LoadedFrom(ephemeral, backend, agentId) = EmptyMap
    /\ (rt.phase = "loaded" /\ rt.how = "ClearAction") =>
           ephemeral = EmptyMap

\* two pairs were saved, the Clear action succeeded, and loadAll() ran
C20_Witness ==
    /\ rt.phase = "loaded"
    /\ rt.how = "ClearAction"
    /\ DOMAIN rt.saved = Keys
    /\ asResult.op = "LoadAll"
    /\ ephemeral = EmptyMap

----------------------------------------------------------------------------
(* load_persistent_state over every kind of backend *)

\* AgentState::new(id, backend) over any implementation of the trait
InitLoad ==
    /\ agentId \in AgentIds
    /\ ephemeral = EmptyMap
    /\ backend \in {NewBackend("InMemory"), NewBackend("File"), NewBackend("Fallible")}
    /\ nats = FALSE
    /\ published = <<>>
    /\ asResult = [op |-> "new", key |-> <<>>, found |-> NotFound, res |-> "Ok"]
    /\ lastMsg = [to |-> agentId, kind |-> "none", changed |-> FALSE, seq |-> 0]
    /\ claimed = [k \in Keys |-> NotFound]
    /\ rt = NoRoundTrip
    /\ IdleProc
    /\ IdleRetry /\ IdleSup /\ IdleShared

SpecLoad == InitLoad /\ [][NextStore]_vars

\* the ends of the persistent keys: every local key a persistent key can
\* stand for
Suffixes(b) ==
    UNION { {SubSeq(pk, i, Len(pk)) : i \in 1..(Len(pk) + 1)} : pk \in DOMAIN b.storage }

\* eph holds (k, v) exactly for the persistent entries "{id}:k" -> v
ExactlyPersistent(eph, b, id) ==
    \A k \in (DOMAIN eph) \cup Suffixes(b) \cup Keys :
        MapGet(eph, k) = BackendRetrieve(b, PersistentKey(id, k))

\* a load of an empty ephemeral view that returned Ok loaded exactly the
\* agent's persistent entries
LoadedExactly ==
    (ephemeral = EmptyMap /\ asResult'.op = "LoadAll" /\ asResult'.res = "Ok")
        => ExactlyPersistent(ephemeral', backend, agentId)

\* a load in which list_keys or retrieve returned Err returned Err
LoadErrorPropagated ==
    (asResult.op = "LoadAll" /\ asResult.found # NotFound) => asResult.res = "Err"

\* C21: after load_persistent_state returns Ok on an agent whose ephemeral
\* view was empty, the ephemeral view holds (k, v) exactly for the
\* persistent entries "{agentId}:k" -> v: the prefix is stripped, every such
\* entry is loaded and nothing else is; an error of list_keys or of retrieve
\* is returned to the caller.
C21_LoadAllExact == [][LoadedExactly]_vars /\ []LoadErrorPropagated

\* two pairs were saved, the ephemeral view was emptied and a load over a
\* backend that can fail returned Ok
C21_Witness ==
    /\ asResult.op = "LoadAll"
    /\ asResult.res = "Ok"
    /\ rt.phase = "loaded"
    /\ backend.kind = "Fallible"
    /\ DOMAIN ephemeral = Keys
    /\ agentId = <<"a">>

----------------------------------------------------------------------------
(* Forwarding (handle_message, agent.rs:167-180) *)

\* the step handles one message addressed to another agent, with a transport
ForeignMessageStep ==
    nats /\ lastMsg'.seq = lastMsg.seq + 1 /\ lastMsg'.to # agentId

\* the step published one message to "agent.{to}", or failed to, and left
\* both views alone
ForwardedOnce ==
    /\ asResult'.op = "Forward"
    /\ ephemeral' = ephemeral
    /\ backend' = backend
    /\ asResult'.res = "Ok" =>
          /\ Len(published') = Len(published) + 1
          /\ SubSeq(published', 1, Len(published)) = published
          /\ published'[Len(published')].subject = Subject(lastMsg'.to)
          /\ published'[Len(published')].data.to = lastMsg'.to
    /\ asResult'.res = "Err" => published' = published

\* C22: when an agent with a transport handles a message whose `to` is not
\* its own id, the message is published exactly once to "agent.{to}",
\* nothing else is done with it and both views are unchanged; when the
\* publish fails an error is returned and both views are unchanged.
C22_Forwarding == [][ForeignMessageStep => ForwardedOnce]_vars

----------------------------------------------------------------------------
(* Coordination messages (handle_regular_message, supervisor.rs:154-161) *)

CoordinationPrefix == "coordination_message_"

\* the coordination_message_* keys of a state
CoordinationKeys(st) ==
    {k \in DOMAIN st : Len(k) = 2 /\ k[1] = CoordinationPrefix}

\* the step handles a message with message_type = coordination
CoordinationStep ==
    /\ handled' = handled + 1
    /\ lastHandled'.type = "AgentMessage"
    /\ ~Has(lastHandled'.msg.payload, "llm_task")
    /\ MessageType(lastHandled'.msg.payload) = "coordination"

\* the step added one coordination key, which holds the payload, and kept
\* the others
CoordinationKept ==
    /\ CoordinationKeys(procState) \subseteq CoordinationKeys(procState')
    /\ \E k \in CoordinationKeys(procState') \ CoordinationKeys(procState) :
          procState'[k] = lastHandled'.msg.payload
    /\ \A k \in CoordinationKeys(procState) : procState'[k] = procState[k]

\* C23: every coordination message handled adds a coordination_message_*
\* key of its own holding its payload, whatever the clock reads, so that N
\* messages leave N distinct keys.
C23_CoordinationDistinct == [][CoordinationStep => CoordinationKept]_vars

----------------------------------------------------------------------------
(* Priority (MessageHandler<AgentMessage>::handle, supervisor.rs:78-113) *)

\* the priority strings: the five the handler names and one it does not
Priorities == {"critical", "high", "medium", "normal", "low", "bogus"}

\* the message with its "priority" set to pr
WithPriority(m, pr) ==
    [m EXCEPT !.payload.has = @ \cup {"priority"}, !.payload.priority = pr]

\* the message without a "priority"
WithoutPriority(m) ==
    [m EXCEPT !.payload.has = @ \ {"priority"}, !.payload.priority = ""]

\* the messages that differ from m in their priority at most
PriorityVariants(m) ==
    {WithoutPriority(m)} \cup {WithPriority(m, pr) : pr \in Priorities}

\* the step handles an AgentMessage
MessageStep ==
    handled' = handled + 1 /\ lastHandled'.type = "AgentMessage"

\* every priority variant of the message handled would have taken the same
\* path and left the same state keys and the same operation records
SameForEveryPriority ==
    \A v \in PriorityVariants(lastHandled'.msg) :
        LET r == RouteByPriority(procState, llm_operations, uuids, config, env,
                                 v, clock')
        IN  /\ DOMAIN r.state = DOMAIN procState'
            /\ r.ops = llm_operations'
            /\ r.uuids = uuids'
            /\ r.trail = lastHandled'.trail
            /\ r.tried = lastHandled'.tried
            /\ r.panicked = (procStatus' = "panicked")

\* C24: two messages that differ only in their priority (critical, high,
\* medium, normal, low, an unknown string, or none) take the same handler
\* and write the same state keys and operation statuses; an unknown
\* priority is processed as `normal` is, never rejected or dropped.
C24_PriorityIgnored == [][MessageStep => SameForEveryPriority]_vars

\* a message with an unknown priority was handled and changed the state
C24_Witness ==
    /\ lastHandled.type = "AgentMessage"
    /\ lastHandled.msg.payload.priority = "bogus"
    /\ Has(lastHandled.msg.payload, "priority")
    /\ lastHandled.changed
    /\ message_count = 2

----------------------------------------------------------------------------
(* Get and List, on an AgentState and on an AgentProcess *)

\* one sequence of state actions given to both, over any backend; the owner
\* of the AgentState may empty its ephemeral view
NextReads ==
    \/ \E a \in StateActions : StateActionOnBoth(a)
    \/ ClearEphemeral /\ UNCHANGED <<procVars, retryVars, supVars, sharedVars>>

SpecReads == InitLoad /\ [][NextReads]_vars

\* the step handles Get{key} or List
ReadStep == asResult'.op \in {"Get", "List"}

\* Get{key} found the key in the backend alone and cached it
CachedFromBackend ==
    /\ asResult'.op = "Get"
    /\ asResult'.key \notin DOMAIN ephemeral
    /\ BackendRetrieve(backend, PersistentKey(agentId, asResult'.key)) # NotFound
    /\ ephemeral' = MapPut(ephemeral, asResult'.key,
                            BackendRetrieve(backend,
                                            PersistentKey(agentId, asResult'.key)))

\* C25 (as stated): handling Get{key} or List leaves the ephemeral view, the
\* persistent view and the state of an agent process exactly as they were.
C25_ReadsChangeNothing ==
    [][ReadStep => (ephemeral' = ephemeral /\ backend' = backend
                    /\ procState' = procState)]_vars

\* C25 (amended): handling Get{key} or List leaves the persistent view and
\* the state of an agent process as they were and changes what no key reads
\* as; List leaves the ephemeral view as it was, and so does Get, except
\* that a key absent from the ephemeral view and present in the backend is
\* cached with its persistent value.
C25_ReadsKeepValues ==
    [][ReadStep =>
          /\ backend' = backend
          /\ procState' = procState
          /\ llm_operations' = llm_operations
          /\ ephemeral' = ephemeral \/ CachedFromBackend
          /\ \A k \in Keys : GetFinds(ephemeral', backend', agentId, k)
                               = GetFinds(ephemeral, backend, agentId, k)]_vars

\* a Get has cached a key that was deleted from the ephemeral view while the
\* backend's delete failed
C25_Witness ==
    /\ asResult.op = "Get"
    /\ asResult.res = "Ok"
    /\ asResult.key = <<"k">>
    /\ MapGet(ephemeral, <<"k">>) = "v1"
    /\ claimed[<<"k">>] = NotFound
    /\ <<"k">> \notin DOMAIN procState

----------------------------------------------------------------------------
(* Shutdown (MessageHandler<Shutdown>::handle, supervisor.rs:233-238) *)

\* nothing is handled by the process in this step
NothingMoreHandled ==
    UNCHANGED <<procState, message_count, llm_operations, lastHandled, handled>>

\* C26: handling a Shutdown ends the message loop of the agent process: once
\* a Shutdown has been handled, no item that reaches the process later is
\* handled.
C26_ShutdownEndsLoop ==
    [][lastHandled.type = "Shutdown" => NothingMoreHandled]_vars

----------------------------------------------------------------------------
(* A state query while a task is waiting for its provider                   *)
(* (execute_browserbase_request, supervisor.rs:918-933: lunatic::sleep      *)
(* suspends the process inside the handler of the task)                     *)

\* handling the item reaches execute_browserbase_request
SleepsOn(item) ==
    /\ item.type = "AgentMessage"
    /\ config.llm_enabled
    /\ Has(item.msg.payload, "llm_task")
    /\ item.msg.payload.llm_task = "summarize"
    /\ Has(item.msg.payload, "data")
    /\ env.openai = "valid"
    /\ env.browserbase
    /\ ~PrepareDataPanics(item.msg.payload.data)

\* MessageHandler<AgentMessage>::handle up to the sleep: the message is
\* counted and its record inserted as "processing"
BeginRequest(m) ==
    /\ procStatus = "ready"
    /\ message_count' = message_count + 1
    /\ uuids' = uuids + 1
    /\ llm_operations' = MapPut(llm_operations, Uuid(uuids + 1), "processing")
    /\ procStatus' = "in_flight"
    /\ lastHandled' =
         [type |-> "AgentMessage", msg |-> m, action |-> NoAction,
          opId |-> Uuid(uuids + 1), trail |-> <<"processing">>,
          tried |-> TRUE, changed |-> FALSE, opsBefore |-> llm_operations,
          returned |-> FALSE, reply |-> EmptyMap]
    /\ UNCHANGED <<procState, procClaimed, config, env, clock, llmTasks>>

\* the handler from the end of the sleep to its return
FinishRequest ==
    /\ procStatus = "in_flight"
    /\ LET r == RouteByPriority(procState, lastHandled.opsBefore, uuids - 1,
                                config, env, lastHandled.msg, clock)
       IN  /\ procState' = r.state
           /\ llm_operations' = r.ops
           /\ procStatus' = IF r.panicked THEN "panicked" ELSE "ready"
           /\ lastHandled' = [lastHandled EXCEPT !.trail = r.trail,
                                                 !.changed = (r.state # procState),
                                                 !.returned = ~r.panicked]
    /\ llmTasks' = llmTasks + 1
    /\ UNCHANGED <<procClaimed, message_count, uuids, config, env, clock>>

\* the head of the mailbox is a task that will wait for its provider
BeginNext ==
    /\ mailbox # <<>>
    /\ SleepsOn(Head(mailbox))
    /\ BeginRequest(Head(mailbox).msg)
    /\ mailbox' = Tail(mailbox)
    /\ UNCHANGED <<sentLog, handled>>
    /\ UNCHANGED <<storeVars, retryVars, supVars, sharedVars>>

\* the provider's answer is there
FinishInFlight ==
    /\ FinishRequest
    /\ UNCHANGED <<mailbox, sentLog, handled>>
    /\ UNCHANGED <<storeVars, retryVars, supVars, sharedVars>>

\* the head of the mailbox is handled without a suspension
HandleAtOnce ==
    /\ mailbox # <<>>
    /\ ~SleepsOn(Head(mailbox))
    /\ HandleNext

\* summarize tasks with data, and default messages
QueryMessages ==
    [from : {StoreSender}, to : {ProcId},
     payload : {p \in LlmPayloads : p.llm_task = "summarize" /\ Has(p, "data")
                                      /\ p.data.items \in {<<>>, <<LongWide>>}}
               \cup {p \in DefaultPayloads : p.priority = "" /\ p.seq = 1}]

\* an LLM-enabled agent process with both API keys in its environment
InitQuery ==
    /\ IdleStore
    /\ InitProcWith(TRUE, [openai |-> "valid", anthropic |-> FALSE, browserbase |-> TRUE])
    /\ IdleRetry /\ IdleSup /\ IdleShared

NextQuery ==
    \/ \E m \in QueryMessages : Send(m.from, AgentMessageItem(m))
    \/ Send(Caller, GetAgentStateItem)
    \/ BeginNext
    \/ FinishInFlight
    \/ HandleAtOnce

SpecQuery == InitQuery /\ [][NextQuery]_vars

\* the step answers a GetAgentState
QueryAnswered ==
    /\ mailbox # <<>>
    /\ Head(mailbox).type = "GetAgentState"
    /\ mailbox' = Tail(mailbox)

\* the answer is the state, and nothing of the agent changed
AnsweredWithCopy ==
    /\ lastHandled'.reply = procState
    /\ UNCHANGED <<procState, llm_operations, message_count>>

\* a GetAgentState is the next item of an agent whose task is in flight
QueryWaiting ==
    /\ procStatus = "in_flight"
    /\ mailbox # <<>>
    /\ Head(mailbox).type = "GetAgentState"

\* C27: a GetAgentState query is answered with a copy of the state, without
\* a change to the state, the operation records or the message count, and
\* without waiting for a task of the agent that is in flight: the task never
\* has to finish before a waiting query is answered.
C27_QueryDoesNotWait ==
    [][/\ QueryAnswered => AnsweredWithCopy
       /\ QueryWaiting => procStatus' = "in_flight"]_vars

----------------------------------------------------------------------------
(* Starting an agent (spawn_single_agent, spawn_llm_enabled_agent,          *)
(* supervisor.rs:1025-1094, and AgentProcess::init, supervisor.rs:59-70)    *)

\* the keys of the files a previous run may have left in the directory
SpawnKeys ==
    {PersistentKey(<<"a">>, <<"k">>), PersistentKey(<<"a">>, <<"b", ":", "k">>)}

\* the directories a file backend may be opened on
Directories ==
    { [files |-> f, torn |-> {}] : f \in UNION { [ks -> Values] : ks \in SUBSET SpawnKeys } }

\* the backends a config selects, before they are opened
ConfiguredBackends ==
    {NewBackend("InMemory")}
    \cup { [kind |-> "File", storage |-> EmptyMap, disk |-> d] : d \in Directories }

\* format!("{}.json", key): the name of the file of a key
FileName(key) == Cat(key, <<".", "json">>)

\* the places of the '.' in a file name
Dots(name) == {i \in 1..Len(name) : name[i] = "."}

\* Path::extension is Some(..): the name has a '.', and not only the one it
\* begins with
HasExtension(name) ==
    /\ Dots(name) # {}
    /\ ~(name[1] = "." /\ Cardinality(Dots(name)) = 1)

\* Path::extension: what follows the last '.'
Extension(name) ==
    LET last == CHOOSE i \in Dots(name) : \A j \in Dots(name) : j <= i
    IN  SubSeq(name, last + 1, Len(name))

\* Path::file_stem: what precedes the last '.', or the whole name if it has
\* no extension
FileStem(name) ==
    IF HasExtension(name)
    THEN LET last == CHOOSE i \in Dots(name) : \A j \in Dots(name) : j <= i
         IN  SubSeq(name, 1, last - 1)
    ELSE name

\* load_from_disk: for every file whose extension is "json", the file stem
\* is stored with the file's content
LoadFromDisk(disk) ==
    LET loaded == {k \in DOMAIN disk.files :
                      /\ HasExtension(FileName(k))
                      /\ Extension(FileName(k)) = <<"json">>}
    IN  [key \in {FileStem(FileName(k)) : k \in loaded} |->
            disk.files[CHOOSE k \in loaded : FileStem(FileName(k)) = key]]

\* FileBackend::new on an existing directory: the outcomes [ok, b].
\* load_from_disk stores the content of every "<key>.json"; read_dir,
\* File::open, read_to_string or serde_json::from_str may return an error.
OpenFileBackend(b) ==
    { [ok |-> FALSE, b |-> b] }
    \cup IF b.disk.torn = {}
         THEN { [ok |-> TRUE, b |-> [b EXCEPT !.storage = LoadFromDisk(b.disk)]] }
         ELSE {}

\* the entries of the configured backend
PersistentEntries(b) == IF b.kind = "File" THEN b.disk.files ELSE b.storage

\* AgentProcess::link().start(config): AgentProcess::init
StartAgentProcess ==
    /\ procState' = EmptyMap
    /\ message_count' = 0
    /\ llm_operations' = EmptyMap
    /\ procStatus' = "ready"

\* the start is given up: the error is returned to the caller of the spawn
StartFails ==
    /\ procStatus' = "start_failed"
    /\ UNCHANGED <<procState, message_count, llm_operations>>

\* spawn_llm_enabled_agent (the build with NATS): the backend is opened, an
\* AgentState is built over it and loaded, and an AgentProcess is started
\* with the config; the AgentState is dropped when the function returns
SpawnLlmEnabledAgent ==
    /\ procStatus = "unstarted"
    /\ \E ob \in (IF backend.kind = "File" THEN OpenFileBackend(backend)
                   ELSE { [ok |-> TRUE, b |-> NewBackend("InMemory")] }) :
          IF ~ob.ok
          THEN /\ StartFails
               /\ asResult' = [op |-> "Spawn", key |-> <<>>,
                               found |-> "FileBackend::new", res |-> "Err"]
               /\ UNCHANGED <<ephemeral, backend>>
          ELSE \E o \in LoadOutcomes(EmptyMap, ob.b, agentId) :
                   /\ backend' = ob.b
                   /\ ephemeral' = o.eph
                   /\ asResult' = [op |-> "Spawn", key |-> <<>>,
                                   found |-> o.failed, res |-> Result(o.ok)]
                   /\ IF o.ok THEN StartAgentProcess ELSE StartFails
    /\ UNCHANGED <<agentId, nats, published, lastMsg, claimed, rt>>
    /\ UNCHANGED <<procClaimed, config, mailbox, sentLog, env, uuids, clock,
                   lastHandled, handled, llmTasks, retryVars, supVars, sharedVars>>

\* spawn_single_agent, and spawn_llm_enabled_agent in the build without
\* NATS: an AgentProcess is started with the config
SpawnSingleAgent ==
    /\ procStatus = "unstarted"
    /\ StartAgentProcess
    /\ asResult' = [op |-> "Spawn", key |-> <<>>, found |-> NotFound, res |-> "Ok"]
    /\ UNCHANGED <<agentId, ephemeral, backend, nats, published, lastMsg, claimed, rt>>
    /\ UNCHANGED <<procClaimed, config, mailbox, sentLog, env, uuids, clock,
                   lastHandled, handled, llmTasks, retryVars, supVars, sharedVars>>

\* an agent that is configured and not yet started
InitSpawn ==
    /\ agentId \in AgentIds
    /\ ephemeral = EmptyMap
    /\ backend \in ConfiguredBackends
    /\ nats = FALSE
    /\ published = <<>>
    /\ asResult = [op |-> "new", key |-> <<>>, found |-> NotFound, res |-> "Ok"]
    /\ lastMsg = [to |-> agentId, kind |-> "none", changed |-> FALSE, seq |-> 0]
    /\ claimed = [k \in Keys |-> NotFound]
    /\ rt = NoRoundTrip
    /\ procState = EmptyMap
    /\ procClaimed = [k \in Keys |-> NotFound]
    /\ message_count = 0
    /\ llm_operations = EmptyMap
    /\ config = [id |-> agentId, llm_enabled |-> FALSE]
    /\ mailbox = <<>>
    /\ sentLog = [s \in Senders \cup {Caller} |-> <<>>]
    /\ env = NoEnv
    /\ uuids = 0
    /\ clock = 0
    /\ procStatus = "unstarted"
    /\ lastHandled = NothingHandled
    /\ handled = 0
    /\ llmTasks = 0
    /\ IdleRetry /\ IdleSup /\ IdleShared

NextSpawn ==
    \/ SpawnLlmEnabledAgent
    \/ SpawnSingleAgent
    \/ \E a \in ProcStateActions : Arrives /\ ProcHandleStateAction(a)
    \/ Arrives /\ ProcHandleGetAgentState

SpecSpawn == InitSpawn /\ [][NextSpawn]_vars

\* the state of the agent process holds every entry of the agent in the backend
LoadedIntoProcess ==
    \A k \in Keys :
        PersistentKey(agentId, k) \in DOMAIN PersistentEntries(backend) =>
            MapGet(procState, k) = PersistentEntries(backend)[PersistentKey(agentId, k)]

\* C28: when an agent has finished initializing and is ready, its state
\* holds (k, v) for every entry "{agentId}:k" -> v of its configured
\* backend; when the load fails the agent does not become ready.
C28_StartupLoad ==
    /\ (procStatus = "ready" /\ handled = 0) => LoadedIntoProcess
    /\ (asResult.op = "Spawn" /\ asResult.res = "Err") => procStatus = "start_failed"

----------------------------------------------------------------------------
(* AgentSupervisor (supervisor.rs:988-1023).  Its Children are              *)
(* (AgentProcess,): the one child is the agent process of the model.  The   *)
(* host restarts a child that dies as SupervisorStrategy::OneForOne says:   *)
(* that child alone, with the arguments given to set_args.                  *)

\* the AgentConfig values of the model
SupConfigs ==
    [id : {<<"a">>, <<"b">>}, memory_backend_type : {"InMemory", "File"},
     nats_enabled : {FALSE}, llm_enabled : BOOLEAN, agent_type : {"Generic"}]

\* the lists given to spawn_agent_supervisor: none, one or two configs
ConfigLists ==
    {<<>>} \cup {<<c>> : c \in SupConfigs}
    \cup {<<c, d>> : <<c, d>> \in SupConfigs \X SupConfigs}

\* the config of a process that is not started
NoConfig ==
    [id |-> <<>>, memory_backend_type |-> "InMemory", nats_enabled |-> FALSE,
     llm_enabled |-> FALSE, agent_type |-> "Generic"]

\* spawn_agent_supervisor(configs): Supervisor::init sets the strategy and
\* gives the first config, if there is one, to set_args; the child is
\* started with it.  With no config no arguments are set and no child is
\* started, whether or not the host reports the start as failed.
SpawnAgentSupervisor(configs) ==
    /\ sup.status = "none"
    /\ procStatus = "unstarted"
    /\ IF configs # <<>>
       THEN /\ sup' = [status |-> "running", configs |-> configs,
                       args |-> <<Head(configs)>>, restarts |-> 0]
            /\ StartAgentProcess
            /\ config' = Head(configs)
       ELSE /\ \E st \in {"running", "start_failed"} :
                  sup' = [status |-> st, configs |-> configs, args |-> <<>>,
                          restarts |-> 0]
            /\ UNCHANGED <<procState, message_count, llm_operations, procStatus,
                           config>>
    /\ UNCHANGED <<procClaimed, mailbox, sentLog, env, uuids, clock, lastHandled,
                   handled, llmTasks>>
    /\ UNCHANGED <<storeVars, retryVars, sharedVars>>

\* A faulty restart that takes the last config of the list
RestartChildFromLastConfig ==
    /\ sup.status = "running"
    /\ procStatus = "panicked"
    /\ StartAgentProcess
    /\ config' = sup.configs[Len(sup.configs)]
    /\ sup' = [sup EXCEPT !.restarts = @ + 1]
    /\ UNCHANGED <<procClaimed, mailbox, sentLog, env, uuids, clock, lastHandled,
                   handled, llmTasks>>
    /\ UNCHANGED <<storeVars, retryVars, sharedVars>>

\* OneForOne: the child that died is started again with the arguments of
\* set_args (AgentProcess::init on the config clone)
RestartChild ==
    /\ sup.status = "running"
    /\ procStatus = "panicked"
    /\ StartAgentProcess
    /\ config' = sup.args[1]
    /\ sup' = [sup EXCEPT !.restarts = @ + 1]
    /\ UNCHANGED <<procClaimed, mailbox, sentLog, env, uuids, clock, lastHandled,
                   handled, llmTasks>>
    /\ UNCHANGED <<storeVars, retryVars, sharedVars>>

\* what the supervised agent is sent: a default message, and summarize
\* tasks one of which makes the handler panic
SupMessages ==
    [from : {StoreSender}, to : {ProcId},
     payload : {p \in DefaultPayloads : p.priority = "" /\ p.seq = 1}
               \cup {p \in LlmPayloads :
                        /\ p.llm_task = "summarize" /\ Has(p, "data")
                        /\ p.data.items \in {<<LongWide>>, <<ShortText, LongShifted>>}}]

\* no supervisor and no agent process yet; OPENAI_API_KEY is set
InitSupervisor ==
    /\ IdleStore
    /\ procState = EmptyMap
    /\ procClaimed = [k \in Keys |-> NotFound]
    /\ message_count = 0
    /\ llm_operations = EmptyMap
    /\ config = NoConfig
    /\ mailbox = <<>>
    /\ sentLog = [s \in Senders \cup {Caller} |-> <<>>]
    /\ env = [openai |-> "valid", anthropic |-> FALSE, browserbase |-> FALSE]
    /\ uuids = 0
    /\ clock = 0
    /\ procStatus = "unstarted"
    /\ lastHandled = NothingHandled
    /\ handled = 0
    /\ llmTasks = 0
    /\ IdleRetry
    /\ sup = NoSupervisor
    /\ IdleShared

NextSupervisor ==
    \/ \E cs \in ConfigLists : SpawnAgentSupervisor(cs)
    \/ \E m \in SupMessages : Arrives /\ ProcHandleAgentMessage(m)
    \/ Arrives /\ ProcHandleGetAgentState
    \/ RestartChild

SpecSupervisor == InitSupervisor /\ [][NextSupervisor]_vars

\* the ids of the agents started under the supervisor
StartedIds == IF procStatus = "unstarted" THEN {} ELSE {config.id}

\* C29: for every AgentConfig of the list given to spawn_agent_supervisor,
\* an agent with that config's id is started under the supervisor.
C29_EveryConfigStarted ==
    sup.status = "running" =>
        \A i \in 1..Len(sup.configs) : sup.configs[i].id \in StartedIds

\* the host restarts a child that died
SpecSupervisorFair == SpecSupervisor /\ WF_vars(RestartChild)

\* the step is a restart by the supervisor
RestartStep == sup'.restarts = sup.restarts + 1

\* the agent restarted is the one that terminated abnormally, it is started
\* from the config it was first started with, and nothing outside it changes
RestartedFromOriginal ==
    /\ procStatus = "panicked"
    /\ procStatus' = "ready"
    /\ config' = config
    /\ config' = Head(sup.configs)
    /\ procState' = EmptyMap
    /\ message_count' = 0
    /\ llm_operations' = EmptyMap
    /\ UNCHANGED <<storeVars, sup.configs, sup.args, sup.status>>

----------------------------------------------------------------------------
(* One InMemoryBackend shared by the holders of its clones (memory.rs:16-70) *)
(* #[derive(Clone)] copies the Arc, so every clone reaches one map behind   *)
(* one Mutex.  A call of a holder is invoked, takes the lock, acts on the   *)
(* map through the guard and drops the guard when it returns.  The map is   *)
(* not updated in one step: the guard gives the map as it is when the lock  *)
(* is taken, and the call's new map is in place when the guard is dropped.  *)

\* the keys and the prefixes the holders use
SharedKeys == {PersistentKey(<<"a">>, <<"k">>), PersistentKey(<<"b">>, <<"k">>)}

SharedPrefixes == {NamespacePrefix(<<"a">>)}

\* the calls of the trait a holder can make; list_keys is given None or
\* Some(prefix)
BackendCalls ==
    [op : {"store"}, key : SharedKeys, value : Values]
    \cup [op : {"retrieve", "delete"}, key : SharedKeys, value : {NotFound}]
    \cup [op : {"list_keys"}, key : SharedPrefixes, value : {"Some"}]
    \cup [op : {"list_keys", "clear"}, key : {<<>>}, value : {"None"}]

\* the map a call leaves: insert, remove, clear, or the map as it was
MemApply(map, call) ==
    CASE call.op = "store"  -> MapPut(map, call.key, call.value)
      [] call.op = "delete" -> MapDel(map, call.key)
      [] call.op = "clear"  -> EmptyMap
      [] OTHER              -> map

\* what a call returns: Ok(get(key).cloned()), Ok(remove(key).is_some()),
\* Ok(the keys that start with the prefix, or every key), Ok(())
MemReturn(map, call) ==
    CASE call.op = "retrieve" ->
            [NoReturn EXCEPT !.value = MapGet(map, call.key)]
      [] call.op = "delete" ->
            [NoReturn EXCEPT !.deleted = call.key \in DOMAIN map]
      [] call.op = "list_keys" ->
            [NoReturn EXCEPT !.keys =
                IF call.value = "Some"
                THEN {k \in DOMAIN map : StartsWith(k, call.key)}
                ELSE DOMAIN map]
      [] OTHER -> NoReturn

\* a holder calls a method of its clone
CallBackend(h, call) ==
    /\ holders[h].pc = "idle"
    /\ holders' = [holders EXCEPT ![h] = [IdleHolder EXCEPT !.pc = "called", !.call = call]]
    /\ UNCHANGED <<arc, seqMap>>

\* A faulty lock that is given to a second holder while the first has it
LockStorageShared(h) ==
    /\ holders[h].pc = "called"
    /\ arc' = [arc EXCEPT !.owner = h]
    /\ holders' = [holders EXCEPT ![h].pc = "locked", ![h].guard = arc.map,
                                  ![h].expected = MemReturn(seqMap, holders[h].call)]
    /\ seqMap' = MemApply(seqMap, holders[h].call)

\* self.storage.lock().unwrap(): the holder waits until the lock is free.
\* The calls take effect in the order they take the lock: seqMap and
\* `expected` are what the calls do when run one after another in that order.
LockStorage(h) ==
    /\ holders[h].pc = "called"
    /\ arc.owner = "none"
    /\ arc' = [arc EXCEPT !.owner = h]
    /\ holders' = [holders EXCEPT ![h].pc = "locked", ![h].guard = arc.map,
                                  ![h].expected = MemReturn(seqMap, holders[h].call)]
    /\ seqMap' = MemApply(seqMap, holders[h].call)

\* the body of the method under the guard, and the guard dropped on return
ActAndUnlock(h) ==
    /\ holders[h].pc = "locked"
    /\ arc' = [map |-> MemApply(holders[h].guard, holders[h].call), owner |-> "none"]
    /\ holders' = [holders EXCEPT ![h].pc = "idle",
                                  ![h].ret = MemReturn(holders[h].guard, holders[h].call)]
    /\ UNCHANGED seqMap

InitShared == IdleStore /\ IdleProc /\ IdleRetry /\ IdleSup /\ IdleShared

NextShared ==
    \/ \E h \in Holders, call \in BackendCalls :
          CallBackend(h, call) /\ UNCHANGED <<storeVars, procVars, retryVars, supVars, peer>>
    \/ \E h \in Holders :
          LockStorage(h) /\ UNCHANGED <<storeVars, procVars, retryVars, supVars, peer>>
    \/ \E h \in Holders :
          ActAndUnlock(h) /\ UNCHANGED <<storeVars, procVars, retryVars, supVars, peer>>

SpecShared == InitShared /\ [][NextShared]_vars

\* the call of the holder returned
Returned(h) == holders[h].pc = "idle" /\ holders[h].call # NoCall

\* C31: when several holders of clones of one InMemoryBackend call
\* store/retrieve/delete/list_keys/clear concurrently, one call at a time
\* has the lock, and the execution is that of the calls run one after another
\* in the order they took the lock: whenever the lock is free the map is the
\* map of that sequence (no store is lost), every call returns what it
\* returns in that sequence, and retrieve returns nothing or the value the
\* sequence has under that key.
C31_SharedBackendSerialized ==
    /\ Cardinality({h \in Holders : holders[h].pc = "locked"}) <= 1
    /\ arc.owner = "none" => arc.map = seqMap
    /\ \A h \in Holders :
          Returned(h) =>
             holders[h].ret = holders[h].expected

\* one holder waits for the lock the other has, after stores of both keys
\* took effect, and the holder with the lock is about to delete one of them
C31_Witness ==
    /\ holders["h1"].pc = "locked"
    /\ holders["h1"].call.op = "delete"
    /\ holders["h2"].pc = "called"
    /\ holders["h2"].call.op = "retrieve"
    /\ holders["h2"].call.key = holders["h1"].call.key
    /\ DOMAIN arc.map = SharedKeys

----------------------------------------------------------------------------
(* The mailbox while a handler is suspended (send helpers,                  *)
(* supervisor.rs:1096-1111; the handler of a task sleeps inside             *)
(* execute_browserbase_request)                                             *)

\* summarize tasks with data, one of them with a text whose byte 1000 is
\* inside a character, and default messages
MailboxMessages ==
    [from : {StoreSender}, to : {ProcId},
     payload : {p \in LlmPayloads : p.llm_task = "summarize" /\ Has(p, "data")
                                      /\ p.data.items \in {<<>>, <<ShortText, LongShifted>>}}
               \cup {p \in DefaultPayloads : p.priority = "" /\ p.seq = 1}]

NextMailbox ==
    \/ \E m \in MailboxMessages : Send(m.from, AgentMessageItem(m))
    \/ Send(Caller, GetAgentStateItem)
    \/ BeginNext
    \/ FinishInFlight
    \/ HandleAtOnce

\* the host runs a process that can take a step: a handler that sleeps is
\* woken, and the next item of the mailbox of a live process is handled
SpecMailboxFair ==
    /\ InitQuery
    /\ [][NextMailbox]_vars
    /\ WF_vars(BeginNext)
    /\ WF_vars(FinishInFlight)
    /\ WF_vars(HandleAtOnce)

\* the mailbox changes by an item sent to its end, or by its first item
\* taken by the handler that handles it
MailboxInOrder ==
    \/ mailbox' = mailbox
    \/ \E item \in {Head(sentLog'[s]) : s \in {x \in DOMAIN sentLog' : sentLog'[x] # <<>>}}
                   \cup {sentLog'[s][Len(sentLog'[s])] : s \in {x \in DOMAIN sentLog' : sentLog'[x] # <<>>}} :
          mailbox' = Append(mailbox, item) /\ sentLog' # sentLog
    \/ /\ mailbox # <<>>
       /\ mailbox' = Tail(mailbox)
       /\ lastHandled'.type = Head(mailbox).type
       /\ Head(mailbox).type = "AgentMessage" => lastHandled'.msg = Head(mailbox).msg

----------------------------------------------------------------------------
(* Get{key} reads through the ephemeral view (agent.rs:113-129) *)

\* the step handles Get{key} with the key in the ephemeral view
GetHit == asResult'.op = "Get" /\ asResult'.key \in DOMAIN ephemeral

\* the step handles Get{key} with the key out of the ephemeral view, and
\* the backend's retrieve returns the value it has under "{agentId}:key"
GetMissPersistentHit ==
    /\ asResult'.op = "Get"
    /\ asResult'.key \notin DOMAIN ephemeral
    /\ BackendRetrieve(backend, PersistentKey(agentId, asResult'.key)) # NotFound
    /\ backend.kind = "Fallible" => asResult'.res = "Ok"

\* the step handles Get{key} with the key in neither view
GetMissBoth ==
    /\ asResult'.op = "Get"
    /\ AbsentFromBoth(ephemeral, backend, agentId, asResult'.key)
    /\ backend.kind = "Fallible" => asResult'.res = "Ok"

\* C33: Get{key} on a key of the ephemeral view finds the ephemeral value
\* and does not ask the backend (whatever the backend holds, or would
\* answer); on an ephemeral miss with a persistent hit under
\* "{agentId}:key" it inserts that value into the ephemeral view and leaves
\* the persistent view as it was; on a miss in both it changes nothing.
C33_ReadThroughGet ==
    [][/\ GetHit =>
             /\ asResult'.res = "Ok"
             /\ asResult'.found = ephemeral[asResult'.key]
             /\ ephemeral' = ephemeral
             /\ backend' = backend
       /\ GetMissPersistentHit =>
             /\ asResult'.res = "Ok"
             /\ asResult'.found = backend.storage[PersistentKey(agentId, asResult'.key)]
             /\ ephemeral' = MapPut(ephemeral, asResult'.key, asResult'.found)
             /\ backend' = backend
       /\ GetMissBoth =>
             /\ asResult'.res = "Ok"
             /\ asResult'.found = NotFound
             /\ ephemeral' = ephemeral
             /\ backend' = backend]_vars

\* a Get found the ephemeral value of a key under which the backend holds
\* another value
C33_Witness ==
    /\ asResult.op = "Get"
    /\ asResult.res = "Ok"
    /\ asResult.found = "v2"
    /\ MapGet(ephemeral, asResult.key) = "v2"
    /\ BackendRetrieve(backend, PersistentKey(agentId, asResult.key)) = "v1"

----------------------------------------------------------------------------
(* state_update messages (handle_regular_message, supervisor.rs:146-153) *)

\* the values of the "updates" field: objects of no, one and two pairs, and
\* a value that is not an object (as_object() is None)
UpdateChoices ==
    { [object |-> TRUE,  pairs |-> EmptyMap],
      [object |-> TRUE,  pairs |-> [k \in {<<"k">>} |-> "v2"]],
      [object |-> TRUE,  pairs |-> [k \in {<<"b", ":", "k">>} |-> "v1"]],
      [object |-> TRUE,  pairs |-> [k \in Keys |-> IF k = <<"k">> THEN "v1" ELSE "v2"]],
      [object |-> FALSE, pairs |-> EmptyMap] }

\* {"message_type": "state_update"} with and without "updates"
UpdatePayloads ==
    { [Payload({"message_type", "updates"}, "", "state_update", "", 0,
               NoData, "", EmptyMap, "", NoTarget) EXCEPT !.updates = u]
      : u \in UpdateChoices }
    \cup { Payload({"message_type"}, "", "state_update", "", 0,
                   NoData, "", EmptyMap, "", NoTarget) }

\* state_update messages, and a default message
UpdateMessages ==
    [from : {StoreSender}, to : {ProcId},
     payload : UpdatePayloads
               \cup {p \in DefaultPayloads : p.priority = "" /\ p.seq = 1}]

InitUpdates == IdleStore /\ InitProc /\ IdleRetry /\ IdleSup /\ IdleShared

NextUpdates ==
    \/ \E m \in UpdateMessages : Arrives /\ ProcHandleAgentMessage(m)
    \/ \E a \in ProcStateActions : Arrives /\ ProcHandleStateAction(a)

SpecUpdates == InitUpdates /\ [][NextUpdates]_vars

\* the step handles a message routed by its message_type "state_update"
StateUpdateStep ==
    /\ message_count' = message_count + 1
    /\ ~Has(lastHandled'.msg.payload, "llm_task")
    /\ MessageType(lastHandled'.msg.payload) = "state_update"

\* the object of the "updates" field of the message, if it has one
UpdatesObject(payload) ==
    IF Has(payload, "updates") /\ payload.updates.object
    THEN payload.updates.pairs
    ELSE EmptyMap

\* C34: handling a message with message_type = state_update sets
\* state[k] = v for every pair (k, v) of its `updates` object and leaves
\* every key not named in `updates` as it was; if `updates` is missing or is
\* not an object the state is unchanged; no operation record is created.
C34_StateUpdateMerge ==
    [][StateUpdateStep =>
          LET updates == UpdatesObject(lastHandled'.msg.payload) IN
          /\ \A k \in DOMAIN updates : MapGet(procState', k) = updates[k]
          /\ \A k \in ((DOMAIN procState) \cup (DOMAIN procState')) \ DOMAIN updates :
                MapGet(procState', k) = MapGet(procState, k)
          /\ llm_operations' = llm_operations]_vars

\* a state_update of two pairs was merged into a state that had one of
\* the two keys with another value, and a key the update does not name
C34_Witness ==
    /\ lastHandled.type = "AgentMessage"
    /\ MessageType(lastHandled.msg.payload) = "state_update"
    /\ DOMAIN UpdatesObject(lastHandled.msg.payload) = Keys
    /\ lastHandled.changed
    /\ message_count = 2
    /\ DOMAIN procState = Keys \cup {LastMessageKey(StoreSender)}
    /\ \A k \in Keys : procState[k] = UpdatesObject(lastHandled.msg.payload)[k]

----------------------------------------------------------------------------
(* The delays of retry_llm_operation (llm_client.rs:377-392, lib.rs:68-75) *)

\* the sum of the delays
RECURSIVE TotalMs(_)
TotalMs(ds) == IF ds = <<>> THEN 0 ELSE Head(ds) + TotalMs(Tail(ds))

\* C35: in retry_llm_operation the delay before attempt i+1 is given by the
\* kind of the error of attempt i (LLMTimeout 1000 ms, LLMRateLimit 5000 ms,
\* Nats 500 ms); a delay happens only between two attempts, never after the
\* last attempt and never after an error that is not retryable, so that a
\* call that has returned has waited attempts - 1 times, and for at most
\* max_retries * 5000 ms.
C35_RetryBackoff ==
    /\ \A i \in 1..Len(retry.slept) :
          /\ retry.slept[i] = RetryDelayMs(retry.outcomes[i])
          /\ retry.slept[i] \in {1000, 5000, 500}
    /\ retry.pc = "loop" => Len(retry.slept) = retry.calls
    /\ retry.pc = "done" =>
          /\ Len(retry.slept) = retry.calls - 1
          /\ TotalMs(retry.slept) <= retry.max_retries * 5000

----------------------------------------------------------------------------
(* Two AgentStates over one backend: AgentState::new(id, Box::new(b.clone())) *)
(* twice, with the clones of one InMemoryBackend (memory.rs:16-19, the Arc    *)
(* is shared).  The first agent is agentId / ephemeral, the second is `peer`; *)
(* `backend` is the map both reach.                                           *)

\* the ids of the second agent: one without ':', and the ids of AgentIds
PeerIds == AgentIds \cup {OtherId}

\* StateAction::Store { key, value } handled by the second agent
PeerStore(key, value) ==
    /\ \E o \in BackendStore(backend, PersistentKey(peer.id, key), value) :
          /\ backend' = o.b
          /\ asResult' = [op |-> "PeerStore", key |-> key, found |-> NotFound,
                          res |-> Result(o.ok)]
    /\ peer' = [peer EXCEPT !.ephemeral = MapPut(@, key, value),
                            !.written = @ \cup {PersistentKey(peer.id, key)}]
    /\ rt' = NoRoundTrip
    /\ UNCHANGED <<agentId, ephemeral, nats, published, lastMsg, claimed>>
    /\ UNCHANGED <<arc, holders, seqMap>>

\* the second agent is started again: AgentState::new and
\* load_persistent_state
PeerLoadAll ==
    /\ \E o \in LoadOutcomes(EmptyMap, backend, peer.id) :
          /\ peer' = [peer EXCEPT !.ephemeral = o.eph]
          /\ asResult' = [op |-> "PeerLoadAll", key |-> <<>>, found |-> o.failed,
                          res |-> Result(o.ok)]
    /\ rt' = NoRoundTrip
    /\ UNCHANGED <<agentId, ephemeral, backend, nats, published, lastMsg, claimed>>
    /\ UNCHANGED <<arc, holders, seqMap>>

\* two agents of distinct ids over one empty InMemoryBackend
InitPeers ==
    /\ agentId \in AgentIds
    /\ ephemeral = EmptyMap
    /\ backend = NewBackend("InMemory")
    /\ nats = FALSE
    /\ published = <<>>
    /\ asResult = [op |-> "new", key |-> <<>>, found |-> NotFound, res |-> "Ok"]
    /\ lastMsg = [to |-> agentId, kind |-> "none", changed |-> FALSE, seq |-> 0]
    /\ claimed = [k \in Keys |-> NotFound]
    /\ rt = NoRoundTrip
    /\ IdleProc
    /\ IdleRetry /\ IdleSup
    /\ arc = NewArc
    /\ holders = [h \in Holders |-> IdleHolder]
    /\ seqMap = EmptyMap
    /\ peer \in [id : PeerIds \ {agentId}, ephemeral : {EmptyMap}, written : {{}}]

NextPeers ==
    \/ \E a \in StateActions :
          HandleStateAction(a) /\ UNCHANGED <<procVars, retryVars, supVars, sharedVars>>
    \/ LoadAll /\ UNCHANGED <<procVars, retryVars, supVars, sharedVars>>
    \/ \E k \in Keys, v \in Values :
          PeerStore(k, v) /\ UNCHANGED <<procVars, retryVars, supVars>>
    \/ PeerLoadAll /\ UNCHANGED <<procVars, retryVars, supVars>>

SpecPeers == InitPeers /\ [][NextPeers]_vars

\* the persistent entries under the namespace "{id}:"
Namespace(b, id) ==
    [pk \in BackendListKeys(b, NamespacePrefix(id)) |-> b.storage[pk]]

\* neither id has a ':' : no key of one agent is in the namespace of the other
PlainIds == agentId = <<"a">> /\ peer.id = OtherId

\* C36: when two agents A and B use one backend, a Clear or a Delete state
\* action handled by A leaves every persistent entry under B's namespace
\* "{B}:" as it was, so that a later loadAll() of B restores all of B's
\* entries.  (Stated for ids without ':'.)
C36_PeerIsolation ==
    [][(PlainIds /\ asResult'.op \in {"Clear", "Delete"}) =>
          /\ Namespace(backend', peer.id) = Namespace(backend, peer.id)
          /\ LoadedFrom(EmptyMap, backend', peer.id)
               = LoadedFrom(EmptyMap, backend, peer.id)]_vars

\* C37: for two distinct agent ids A and B over one backend -- ids with a
\* ':' and ids of which one, followed by ':', begins the other included --
\* no persistent key written by a store of B is listed by A's loadAll(), and
\* a store of A and a store of B never write the same persistent key.
C37_NamespacesDisjoint ==
    /\ BackendListKeys(backend, NamespacePrefix(agentId)) \cap peer.written = {}
    /\ \A k \in Keys :
          claimed[k] # NotFound => PersistentKey(agentId, k) \notin peer.written

----------------------------------------------------------------------------
(* Delete and Clear whose backend call fails (agent.rs:130-148) *)

\* the step handles Delete{key} or Clear and returns the backend's error
RemovalFailed ==
    /\ asResult'.op \in {"Delete", "Clear"}
    /\ asResult'.res = "Err"

\* C38: if handling Delete{key} or Clear returns a backend error, the
\* operation took effect in neither view: the ephemeral view is as it was,
\* the backend answers every retrieve as before, and so the two views agree
\* on every key they agreed on.
C38_RemovalErrorChangesNothing ==
    [][RemovalFailed =>
          /\ ephemeral' = ephemeral
          /\ \A pk \in DOMAIN backend.storage :
                BackendRetrieve(backend', pk) = BackendRetrieve(backend, pk)
          /\ \A k \in Keys :
                MapGet(ephemeral, k) = BackendRetrieve(backend, PersistentKey(agentId, k))
                => MapGet(ephemeral', k) = BackendRetrieve(backend', PersistentKey(agentId, k))]_vars

----------------------------------------------------------------------------
(* The error retry_llm_operation returns (llm_client.rs:372-397) *)

\* C39: whenever retry_llm_operation returns Err, the error is the one of
\* the most recent attempt -- a retryable failure followed by a
\* non-retryable one returns the non-retryable error after exactly two
\* attempts -- and the placeholder "No attempts made" is returned for no
\* max_retries >= 0.
C39_ReturnsLatestError ==
    (retry.pc = "done" /\ retry.result # "Ok") =>
        /\ retry.calls >= 1
        /\ retry.result = retry.outcomes[Len(retry.outcomes)]
        /\ retry.result # NoAttemptsMade
        /\ ( /\ Len(retry.outcomes) >= 2
             /\ IsRetryable(retry.outcomes[1])
             /\ ~IsRetryable(retry.outcomes[2]) ) =>
               /\ retry.calls = 2
               /\ retry.result = retry.outcomes[2]

\* a timeout and then a provider error, with retries left: two attempts,
\* the provider error returned
C39_Witness ==
    /\ retry.pc = "done"
    /\ retry.max_retries = 3
    /\ retry.outcomes = <<"LLMTimeout", "LLMProvider">>
    /\ retry.calls = 2
    /\ retry.result = "LLMProvider"
    /\ retry.last_error = "LLMTimeout"

----------------------------------------------------------------------------
(* A FileBackend called directly, beside an InMemoryBackend given the same  *)
(* calls (memory.rs:85-188).  seqMap is the map of the InMemoryBackend.     *)

\* the keys of the calls: "k", "k.json" and the empty key
FileKeys == {<<"k">>, <<"k", ".", "json">>, <<>>}

\* FileBackend::store / delete / clear, after calls that all returned Ok
FileBackendCall(call) ==
    /\ asResult.res = "Ok"
    /\ \E o \in (CASE call.op = "store"  -> BackendStore(backend, call.key, call.value)
                   [] call.op = "delete" -> BackendDelete(backend, call.key)
                   [] call.op = "clear"  -> BackendClear(backend)) :
          /\ backend' = o.b
          /\ asResult' = [op |-> call.op, key |-> call.key, found |-> NotFound,
                          res |-> Result(o.ok)]
    /\ seqMap' = MemApply(seqMap, call)
    /\ UNCHANGED <<agentId, ephemeral, nats, published, lastMsg, claimed, rt>>
    /\ UNCHANGED <<arc, holders, peer>>

\* the backend is dropped and FileBackend::new is called on its directory
FileBackendReopen ==
    /\ asResult.res = "Ok"
    /\ \E o \in OpenFileBackend(backend) :
          /\ backend' = o.b
          /\ asResult' = [op |-> "new", key |-> <<>>, found |-> NotFound,
                          res |-> Result(o.ok)]
    /\ UNCHANGED <<agentId, ephemeral, nats, published, lastMsg, claimed, rt>>
    /\ UNCHANGED <<arc, holders, seqMap, peer>>

FileCalls ==
    [op : {"store"}, key : FileKeys, value : Values]
    \cup [op : {"delete"}, key : FileKeys, value : {NotFound}]
    \cup [op : {"clear"}, key : {<<>>}, value : {"None"}]

\* FileBackend::new on an empty directory
InitFile ==
    /\ agentId = <<"a">>
    /\ ephemeral = EmptyMap
    /\ backend = NewBackend("File")
    /\ nats = FALSE
    /\ published = <<>>
    /\ asResult = [op |-> "new", key |-> <<>>, found |-> NotFound, res |-> "Ok"]
    /\ lastMsg = [to |-> agentId, kind |-> "none", changed |-> FALSE, seq |-> 0]
    /\ claimed = [k \in Keys |-> NotFound]
    /\ rt = NoRoundTrip
    /\ IdleProc
    /\ IdleRetry /\ IdleSup /\ IdleShared

NextFile ==
    \/ \E call \in FileCalls :
          FileBackendCall(call) /\ UNCHANGED <<procVars, retryVars, supVars>>
    \/ FileBackendReopen /\ UNCHANGED <<procVars, retryVars, supVars>>

SpecFile == InitFile /\ [][NextFile]_vars

\* the "<key>.json" files of the directory are those of the keys of the
\* map, with the map's values
DiskMirrorsMap(b) ==
    /\ {FileName(k) : k \in OnDisk(b.disk)} = {FileName(k) : k \in DOMAIN b.storage}
    /\ \A k \in DOMAIN b.storage : MapGet(b.disk.files, k) = b.storage[k]

\* retrieve and list_keys answer as the InMemoryBackend does
AnswersAsInMemory(b, map) ==
    /\ \A k \in FileKeys : BackendRetrieve(b, k) = MapGet(map, k)
    /\ \A p \in {<<>>, <<"k">>} :
          BackendListKeys(b, p) = {k \in DOMAIN map : StartsWith(k, p)}

\* a FileBackend newly opened on the directory retrieves what b retrieves
ReopenedRetrievesSame(b) ==
    \A o \in OpenFileBackend(b) :
        o.ok => \A k \in FileKeys : BackendRetrieve(o.b, k) = BackendRetrieve(b, k)

\* C40: after any sequence of store/delete/clear calls on a FileBackend
\* that all return Ok, the "<key>.json" files of the directory are those of
\* the keys of its in-memory map, with equal values; retrieve and list_keys
\* answer as an InMemoryBackend given the same calls; and a FileBackend
\* newly opened on the directory retrieves the same value for every key.
C40_FileMirrorsMap ==
    (asResult.res = "Ok" /\ asResult.op # "new") =>
        /\ DiskMirrorsMap(backend)
        /\ AnswersAsInMemory(backend, seqMap)
        /\ ReopenedRetrievesSame(backend)

====
